---- MODULE Spec2Model ----
(***************************************************************************)
(* A state-machine model of one kinode process instance                    *)
(* (kinode/src/kernel/process.rs): the boot gate of make_process_loop, the *)
(* two receive modes, send_request / send_response with their context      *)
(* table and timeout tasks, and the OnExit enactment; of the persistent    *)
(* state service (src/state.rs); and of the request loop of the vfs        *)
(* (src/vfs.rs).                                                           *)
(*                                                                         *)
(* Option<T> is modelled as a sequence of length at most one:              *)
(* None is <<>> and Some(x) is <<x>>.                                      *)
(***************************************************************************)
EXTENDS Integers, Sequences, FiniteSets, TLC

VARIABLES
    phase,                     \* position of make_process_loop
    recv_in_process,           \* the process's bounded inbox channel
    pre_boot_queue,            \* holding buffer of make_process_loop
    message_queue,             \* ProcessState.message_queue
    contexts,                  \* ProcessState.contexts: id -> (ProcessContext, timer handle)
    timers,                    \* the sleeping timeout tasks spawned by send_request
    current_incoming_message,  \* ProcessState.current_incoming_message
    nested_request,            \* ProcessState.nested_request
    last_blob,                 \* ProcessState.last_blob
    send_to_loop,              \* what the last operation sent to the main dispatch loop
    awaiting,                  \* Some(id) while suspended in get_specific_message_for_process
    held,                      \* capabilities the oracle holds for this process
    metadata,                  \* t::ProcessMetadata of the instance (on_exit)
    exit,                      \* locals of the exit path of make_process_loop, and what it sent
    unanswered,                \* environment: timed requests their target has yet to answer
    nsent,                     \* history: number of requests the component has sent
    ndelivered,                \* environment: envelopes delivered by the dispatch loop
    arrived,                   \* history: the entries not yet handed over, in arrival order
    handed,                    \* history: per timed request, what the component was handed
    last,                      \* history: the last operation and what it returned
    db,                        \* state.rs: the key-value store (rocksdb::DB)
    checkpoint,                \* state.rs: the directory <home>/kernel/checkpoint
    process_map,               \* state.rs: what load_state returned, and how it got it
    state_tasks,               \* state.rs: the tasks state_sender has spawned
    state_out,                 \* state.rs: what the state service sent to the dispatch loop
    process_queues,            \* vfs.rs: the queue of each source process
    queue_lock,                \* vfs.rs: the task holding the mutex of each queue
    vfs_tasks,                 \* vfs.rs: the tasks the vfs loop has spawned
    vfs_out,                   \* vfs.rs: what the vfs sent to the dispatch loop
    vfs_loop,                  \* vfs.rs: the request the vfs loop holds for a queue
    disk,                      \* vfs.rs: the paths that exist in the file system
    open_files,                \* vfs.rs: open_files, path -> file handle
    caps_oracle,               \* vfs.rs: the capabilities the oracle holds, and its log
    file_handles               \* vfs.rs: per file handle, the task that has its mutex

\* The variables of the process instance.
instance == << phase, recv_in_process, pre_boot_queue, message_queue, contexts, timers,
               current_incoming_message, nested_request, last_blob, send_to_loop,
               awaiting, held, metadata, exit, unanswered, nsent, ndelivered, arrived,
               handed, last >>

\* The variables of the state service and of the vfs.
vfs_store == << disk, open_files, caps_oracle, file_handles >>

services == << db, checkpoint, process_map, state_tasks, state_out,
               process_queues, queue_lock, vfs_tasks, vfs_out, vfs_loop,
               vfs_store >>

vars == << instance, services >>

(***************************************************************************)
(* Bounds of the model.                                                    *)
(***************************************************************************)
MaxId == 2          \* message ids are drawn from 1..MaxId
MaxDeliver == 2     \* envelopes the dispatch loop delivers in one run
MaxSends == 2       \* requests the component sends in one run
InboxCapacity == 2  \* capacity of the bounded inbox channel

Ids == 1 .. MaxId

None == << >>
Some(x) == << x >>
IsSome(o) == Len(o) = 1
Unwrap(o) == o[1]

(***************************************************************************)
(* Addresses, capabilities and signatures.                                 *)
(***************************************************************************)
OurNode == "our"
FarNode == "far"
Addr(n, p) == [node |-> n, process |-> p]
Our == Addr(OurNode, "P")
KERNEL_PROCESS_ID == "kernel"
OurKernel == Addr(OurNode, KERNEL_PROCESS_ID)
PeerQ == Addr(OurNode, "Q")
PeerR == Addr(OurNode, "R")
PeerZ == Addr(FarNode, "Z")

Cap(issuer, params) == [issuer |-> issuer, params |-> params]
\* A signature is modelled by who signed and what was signed.
Sig(node, cap) == [by |-> node, of |-> cap]
Junk == [by |-> "nobody", of |-> Cap(PeerZ, "junk")]
Signed(cap) == << cap, Sig(cap.issuer.node, cap) >>
Forged(cap) == << cap, Junk >>

\* pk.verify(serialize(cap), sig) under the local public key.
Verify(cap, sig) == sig.by = OurNode /\ sig.of = cap

(***************************************************************************)
(* Envelopes (t::KernelMessage) and send errors (t::WrappedSendError),     *)
(* flattened into one record shape.  re is a history field: the number of  *)
(* the request of this process that an entry answers (0: none).            *)
(***************************************************************************)
Envelope(kind, id, source, target, rsvp, inherit, expects, body, meta, caps, blob) ==
    [kind |-> kind, id |-> id, source |-> source, target |-> target, rsvp |-> rsvp,
     inherit |-> inherit, expects_response |-> expects, body |-> body,
     metadata |-> meta, capabilities |-> caps, lazy_load_blob |-> blob,
     error |-> "", re |-> 0]

Request(id, source, rsvp, inherit, expects, body, caps, blob) ==
    Envelope("Request", id, source, Our, rsvp, inherit, expects, body, None, caps, blob)

Response(id, source, inherit, body, caps, blob) ==
    Envelope("Response", id, source, Our, None, inherit, None, body, None, caps, blob)

\* t::WrappedSendError { id, source, error: SendError { kind, target, message, blob } }
SendError(id, source, errkind, blob) ==
    [Envelope("SendError", id, source, source, None, FALSE, None, << >>, None, << >>, blob)
        EXCEPT !.error = errkind]

IsOk(res) == res.kind # "SendError"


(***************************************************************************)
(* The capability oracle (kernel side): FilterCaps keeps the capabilities  *)
(* the process holds and attaches the issuer's signature.                  *)
(***************************************************************************)
FilterCaps(on_held, caps) ==
    LET kept == SelectSeq(caps, LAMBDA c : c \in on_held)
    IN  [i \in 1 .. Len(kept) |-> Signed(kept[i])]

(***************************************************************************)
(* kernel_message_to_process_receive                                       *)
(***************************************************************************)
\* A receive that would verify every locally issued cap, whatever the source.
VerifyAnySource(km, cap) == cap.issuer.node = OurNode

\* The only time a cap's signature is verified: a foreign source sends a cap
\* that the local node allegedly issued.
NeedsVerify(km, cap) == km.source.node # OurNode /\ cap.issuer.node = OurNode

KeepCap(km, pair) ==
    IF NeedsVerify(km, pair[1]) THEN Verify(pair[1], pair[2]) ELSE TRUE

PruneCaps(km) == SelectSeq(km.capabilities, LAMBDA pair : KeepCap(km, pair))

RemoveKey(f, k) == [i \in DOMAIN f \ {k} |-> f[i]]

\* JoinHandle::abort: cancels a task that has not finished, no effect otherwise.
Abort(ts, h) == RemoveKey(ts, h)

\* The fields of ProcessState the function reads and writes.
ProcessFields ==
    [contexts |-> contexts, timers |-> timers,
     current_incoming_message |-> current_incoming_message,
     last_blob |-> last_blob]

\* The whole function on the fields `st`: the new fields and the value returned
\* to the component (out: the entry with its capabilities pruned; context: the
\* user context restored).
KernelMessageToProcessReceive(st, res) ==
    LET has == res.id \in DOMAIN st.contexts
        ctx == st.contexts[res.id]
        same == [contexts |-> st.contexts, timers |-> st.timers,
                 current_incoming_message |-> st.current_incoming_message,
                 last_blob |-> st.last_blob,
                 out |-> res, context |-> None]
    IN  IF res.kind = "Request" THEN
            [same EXCEPT !.last_blob = res.lazy_load_blob,
                         !.current_incoming_message = Some(res),
                         !.out = [res EXCEPT !.capabilities = PruneCaps(res)]]
        ELSE IF res.kind = "Response" THEN
            IF has THEN
                [same EXCEPT !.contexts = RemoveKey(st.contexts, res.id),
                             !.timers = Abort(st.timers, ctx.timer),
                             !.last_blob = res.lazy_load_blob,
                             !.current_incoming_message =
                                 IF ctx.message = None THEN Some(res) ELSE ctx.message,
                             !.out = [res EXCEPT !.capabilities = PruneCaps(res)],
                             !.context = ctx.context]
            ELSE
                [same EXCEPT !.last_blob = res.lazy_load_blob,
                             !.current_incoming_message = Some(res),
                             !.out = [res EXCEPT !.capabilities = PruneCaps(res)]]
        ELSE
            IF has THEN
                [same EXCEPT !.contexts = RemoveKey(st.contexts, res.id),
                             !.timers = Abort(st.timers, ctx.timer),
                             !.current_incoming_message = ctx.message,
                             !.context = ctx.context]
            ELSE same

\* History: the arrival log without (the first occurrence of) an entry.
Without(log, res) ==
    IF \E i \in 1 .. Len(log) : log[i] = res
    THEN LET i == CHOOSE i \in 1 .. Len(log) :
                     log[i] = res /\ \A j \in 1 .. i - 1 : log[j] # res
         IN  SubSeq(log, 1, i - 1) \o SubSeq(log, i + 1, Len(log))
    ELSE log

\* History: what the component was handed for the request an entry answers.
Handing(h, res) ==
    IF res.re = 0 THEN h
    ELSE [h EXCEPT ![res.re] = @ \cup
            {IF res.kind = "SendError" THEN res.error ELSE res.kind}]

\* The state change of handing `res` to the component through operation `op`,
\* from the fields `st` and the history `h`.
Surface(op, st, h, res) ==
    LET r == KernelMessageToProcessReceive(st, res)
    IN  /\ contexts' = r.contexts
        /\ timers' = r.timers
        /\ current_incoming_message' = r.current_incoming_message
        /\ last_blob' = r.last_blob
        /\ handed' = Handing(h, res)
        /\ arrived' = Without(arrived, res)
        /\ last' = [op |-> op, res |-> Some(res), out |-> Some(r.out), context |-> r.context,
                    ret |-> None, args |-> None, new_context |-> None]

(***************************************************************************)
(* get_next_message_for_process                                            *)
(***************************************************************************)
\* A receive that would prefer the inbox to the local queue.
NextFromInbox == message_queue # << >> /\ recv_in_process = << >>

\* Where the next entry comes from: the local queue first, then the inbox.
NextFromQueue == message_queue # << >>

GetNextMessageForProcess ==
    /\ phase = "Running"
    /\ awaiting = None
    /\ IF NextFromQueue
       THEN /\ Surface("receive", ProcessFields, handed, Head(message_queue))
            /\ message_queue' = Tail(message_queue)
            /\ UNCHANGED recv_in_process
       ELSE /\ recv_in_process # << >>
            /\ Surface("receive", ProcessFields, handed, Head(recv_in_process))
            /\ recv_in_process' = Tail(recv_in_process)
            /\ UNCHANGED message_queue
    /\ UNCHANGED << phase, pre_boot_queue, nested_request, send_to_loop, awaiting,
                    held, metadata, exit, unanswered, nsent, ndelivered >>
    /\ UNCHANGED services

(***************************************************************************)
(* send_request                                                            *)
(***************************************************************************)
IsRequest(o) == IsSome(o) /\ Unwrap(o).kind = "Request"

\* current_incoming_message if it is a Request, else nested_request if it is one.
PredecessorRequest ==
    IF IsRequest(current_incoming_message) THEN current_incoming_message
    ELSE IF IsRequest(nested_request) THEN nested_request
    ELSE None

\* The ids that occur somewhere in the state.
IdsOf(q) == {q[i].id : i \in DOMAIN q}

KnownIds ==
    UNION {IdsOf(recv_in_process), IdsOf(pre_boot_queue), IdsOf(message_queue),
           IdsOf(arrived), IdsOf(timers), IdsOf(current_incoming_message),
           IdsOf(send_to_loop), IdsOf(last.res), DOMAIN contexts,
           {u.id : u \in unanswered}, {last.ret[i] : i \in DOMAIN last.ret}}

\* Ids are only ever compared for equality, so of the ids that occur nowhere
\* in the state the least one stands for them all.
DrawableIds ==
    {id \in Ids : id \in KnownIds \/ \A other \in Ids \ KnownIds : id <= other}

\* rand::random() retried while the id is a key of contexts.
FreshIds == DrawableIds \ DOMAIN contexts

\* A send_request that would draw a fresh id whatever `inherit` says.
AlwaysFreshIds(inherit) == FreshIds

\* The ids send_request may assign to a request.
RequestIds(inherit) ==
    IF inherit /\ IsSome(PredecessorRequest)
    THEN {Unwrap(PredecessorRequest).id}
    ELSE FreshIds

RequestBlob(inherit, blob) ==
    IF IsSome(blob) THEN blob
    ELSE IF inherit /\ IsSome(PredecessorRequest)
         THEN Unwrap(PredecessorRequest).lazy_load_blob
         ELSE None

RequestCaps(caps) ==
    IF caps # << >> THEN FilterCaps(held, caps) ELSE << >>

RequestRsvp(expects, inherit) ==
    IF IsSome(expects) THEN Some(Our)
    ELSE IF inherit /\ IsSome(current_incoming_message)
         THEN Unwrap(current_incoming_message).rsvp
         ELSE None

\* The envelope send_request hands to the dispatch loop.
RequestEnvelope(fake_source, a, id) ==
    Envelope("Request", id,
             IF IsSome(fake_source) THEN Unwrap(fake_source) ELSE Our,
             a.target, RequestRsvp(a.expects_response, a.inherit),
             a.inherit, a.expects_response, a.body, None,
             RequestCaps(a.capabilities), RequestBlob(a.inherit, a.blob))

\* The timeout task and the context entry registered when a response is
\* expected; the task's handle is the number of the request.
NewTimer(a, id) ==
    [id |-> id, target |-> a.target, blob |-> RequestBlob(a.inherit, a.blob)]

\* A send_request that would register the context without its timeout task.
NoSpawn(ts, h, task) == ts

\* tokio::spawn of the timeout task.
Spawn(ts, h, task) == [i \in DOMAIN ts \cup {h} |-> IF i = h THEN task ELSE ts[i]]

\* A send_request that would register the entry without the user context.
InsertBareContext(a, new_context, id) ==
    [i \in DOMAIN contexts \cup {id} |->
        IF i = id
        THEN [message |-> PredecessorRequest, context |-> None, timer |-> nsent + 1]
        ELSE contexts[i]]

\* contexts.insert(request_id, (ProcessContext { message, context }, handle))
InsertContext(a, new_context, id) ==
    [i \in DOMAIN contexts \cup {id} |->
        IF i = id
        THEN [message |-> PredecessorRequest, context |-> new_context,
              timer |-> nsent + 1]
        ELSE contexts[i]]

\* A send_request that would register a context for every request.
AfterSendAlways(a, new_context, id) ==
    [ProcessFields EXCEPT !.timers = Spawn(timers, nsent + 1, NewTimer(a, id)),
                          !.contexts = InsertContext(a, new_context, id)]

\* The fields of ProcessState after send_request registered its context.
AfterSend(a, new_context, id) ==
    IF IsSome(a.expects_response)
    THEN [ProcessFields EXCEPT !.timers = Spawn(timers, nsent + 1, NewTimer(a, id)),
                               !.contexts = InsertContext(a, new_context, id)]
    ELSE ProcessFields

\* History: the component has been handed nothing yet for the new request.
Sent == Append(handed, {})

Emit(fake_source, a, id) ==
    << [RequestEnvelope(fake_source, a, id) EXCEPT !.re = nsent + 1] >>

\* Environment: the target of a request that expects a response will answer it.
Awaited(km) ==
    IF km.kind = "Request" /\ IsSome(km.expects_response)
    THEN {[re |-> km.re, id |-> km.id, target |-> km.target]}
    ELSE {}

\* The source the kernel injects when it steps in for the process, if any.
FakeSource(a) == IF "fake_source" \in DOMAIN a THEN a.fake_source ELSE None

SendRequest(a, new_context) ==
    /\ phase = "Running"
    /\ awaiting = None
    /\ \E id \in RequestIds(a.inherit) :
          /\ contexts' = AfterSend(a, new_context, id).contexts
          /\ timers' = AfterSend(a, new_context, id).timers
          /\ send_to_loop' = Emit(FakeSource(a), a, id)
          /\ last' = [op |-> "send_request", res |-> None, out |-> None, context |-> None,
                      ret |-> Some(id), args |-> Some(a), new_context |-> new_context]
    /\ unanswered' = unanswered \cup Awaited(send_to_loop'[1])
    /\ handed' = Sent
    /\ nsent' = nsent + 1
    /\ UNCHANGED << phase, recv_in_process, pre_boot_queue, message_queue,
                    current_incoming_message, nested_request, last_blob, awaiting,
                    held, metadata, exit, ndelivered, arrived >>
    /\ UNCHANGED services

(***************************************************************************)
(* get_specific_message_for_process and send_and_await_response            *)
(***************************************************************************)
\* The entries of the queue that the first scan takes for the awaited one.
QueueMatch(message, awaited_message_id) ==
    IsOk(message) /\ message.id = awaited_message_id

MatchIndexes(awaited_message_id) ==
    {i \in 1 .. Len(message_queue) : QueueMatch(message_queue[i], awaited_message_id)}

RemoveAt(q, i) == SubSeq(q, 1, i - 1) \o SubSeq(q, i + 1, Len(q))

Min(S) == CHOOSE x \in S : \A y \in S : x <= y

\* What send_and_await_response makes of the value get_specific returns: a
\* Request in place of the Response is a fatal error, which ends the component.
AfterAwait(res) ==
    IF res.kind = "Request" THEN "Exiting" ELSE "Running"

\* A send_and_await_response that would take any request.
NeverInvalid(request) == FALSE

\* "got invalid send_and_await_response() Request ...: must expect response"
InvalidAwait(request) == request.expects_response = None

\* The call past its check: the request is sent, then the queue is scanned
\* for the awaited id.
SendThenAwait(a) ==
    /\ \E id \in RequestIds(a.inherit) :
          /\ send_to_loop' = Emit(FakeSource(a), a, id)
          /\ IF MatchIndexes(id) # {}
             THEN LET i == Min(MatchIndexes(id))
                  IN  /\ Surface("await", AfterSend(a, None, id), Sent,
                                 message_queue[i])
                      /\ message_queue' = RemoveAt(message_queue, i)
                      /\ awaiting' = None
                      /\ phase' = AfterAwait(message_queue[i])
                      /\ exit' = [exit EXCEPT !.is_error = (phase' = "Exiting")]
             ELSE /\ contexts' = AfterSend(a, None, id).contexts
                  /\ timers' = AfterSend(a, None, id).timers
                  /\ handed' = Sent
                  /\ awaiting' = Some(id)
                  /\ last' = [op |-> "send_and_await_response", res |-> None,
                              out |-> None,
                              context |-> None, ret |-> Some(id),
                              args |-> Some(a), new_context |-> None]
                  /\ UNCHANGED << message_queue, current_incoming_message,
                                  last_blob, phase, exit, arrived >>
    /\ unanswered' = unanswered \cup Awaited(send_to_loop'[1])
    /\ nsent' = nsent + 1
    /\ UNCHANGED << recv_in_process, pre_boot_queue, nested_request, held, metadata,
                    ndelivered >>
    /\ UNCHANGED services

\* send_and_await_response up to its first suspension on the inbox: a request
\* that expects no response is refused before anything is sent.
SendAndAwaitResponse(a) ==
    /\ phase = "Running"
    /\ awaiting = None
    /\ IF InvalidAwait(a)
       THEN /\ last' = [op |-> "send_and_await_response", res |-> None, out |-> None,
                        context |-> None, ret |-> None, args |-> Some(a),
                        new_context |-> None]
            /\ UNCHANGED << phase, recv_in_process, pre_boot_queue, message_queue,
                            contexts, timers, current_incoming_message,
                            nested_request, last_blob, send_to_loop, awaiting, held,
                            metadata, exit, unanswered, nsent, ndelivered, arrived,
                            handed >>
       ELSE SendThenAwait(a)
    /\ UNCHANGED services

\* One turn of the loop of get_specific_message_for_process: the entry the
\* inbox produces is handed over if it has the awaited id and stashed otherwise.
InboxMatch(res, awaited_message_id) == res.id = awaited_message_id

\* A stash that would push to the front of the queue.
StashFront(q, res) == << res >> \o q

\* message_queue.push_back(message)
Stash(q, res) == Append(q, res)

AwaitRecv ==
    /\ phase = "Running"
    /\ IsSome(awaiting)
    /\ recv_in_process # << >>
    /\ LET res == Head(recv_in_process)
       IN  /\ recv_in_process' = Tail(recv_in_process)
           /\ IF InboxMatch(res, Unwrap(awaiting))
              THEN /\ Surface("await", ProcessFields, handed, res)
                   /\ awaiting' = None
                   /\ phase' = AfterAwait(res)
                   /\ exit' = [exit EXCEPT !.is_error = (phase' = "Exiting")]
                   /\ UNCHANGED message_queue
              ELSE /\ message_queue' = Stash(message_queue, res)
                   /\ last' = [op |-> "stash", res |-> Some(res), out |-> None, context |-> None,
                               ret |-> None, args |-> None, new_context |-> None]
                   /\ UNCHANGED << contexts, timers, current_incoming_message,
                                   last_blob, handed, awaiting, phase, exit, arrived >>
    /\ UNCHANGED << pre_boot_queue, nested_request, send_to_loop, held, metadata,
                    unanswered, nsent, ndelivered >>
    /\ UNCHANGED services

(***************************************************************************)
(* send_response                                                           *)
(***************************************************************************)
\* A response that would always go back to the source.
ReplyToSource(km) == km.source

\* The rsvp of the prompting request when set, its source otherwise.
ReplyTo(km) == IF km.rsvp = None THEN km.source ELSE Unwrap(km.rsvp)

\* make_response_id_target: Some([id, target]) or None.
MakeResponseIdTarget ==
    IF current_incoming_message = None THEN None
    ELSE IF Unwrap(current_incoming_message).kind = "Request"
         THEN Some([id |-> Unwrap(current_incoming_message).id,
                    target |-> ReplyTo(Unwrap(current_incoming_message))])
         ELSE IF nested_request = None THEN None
              ELSE Some([id |-> Unwrap(nested_request).id,
                         target |-> ReplyTo(Unwrap(nested_request))])

ResponseBlob(inherit, blob) == IF inherit THEN last_blob ELSE blob

ResponseCaps(caps) == FilterCaps(held, caps)

ResponseEnvelope(a, it) ==
    Envelope("Response", it.id, Our, it.target, None, a.inherit, None, a.body, None,
             ResponseCaps(a.capabilities), ResponseBlob(a.inherit, a.blob))

SendResponse(a) ==
    /\ phase = "Running"
    /\ awaiting = None
    /\ IF MakeResponseIdTarget = None
       THEN /\ last' = [op |-> "send_response", res |-> None, out |-> None, context |-> None,
                        ret |-> None, args |-> Some(a), new_context |-> None]
            /\ send_to_loop' = << >>
       ELSE /\ send_to_loop' = << ResponseEnvelope(a, Unwrap(MakeResponseIdTarget)) >>
            /\ last' = [op |-> "send_response", res |-> None, out |-> None, context |-> None,
                        ret |-> Some(Unwrap(MakeResponseIdTarget).id),
                        args |-> Some(a), new_context |-> None]
    /\ UNCHANGED << phase, recv_in_process, pre_boot_queue, message_queue, contexts,
                    timers, current_incoming_message, nested_request, last_blob,
                    awaiting, held, metadata, exit, unanswered, nsent, ndelivered,
                    arrived, handed >>
    /\ UNCHANGED services

(***************************************************************************)
(* make_process_loop: the boot gate                                        *)
(***************************************************************************)
\* A boot gate that would take the Run request from any source.
IsRunFromAnyone(message) ==
    /\ message.kind = "Request"
    /\ message.inherit = FALSE
    /\ message.expects_response = None
    /\ message.body = << "run" >>
    /\ message.metadata = None
    /\ message.capabilities = << >>

\* The envelope that starts the process: from the local kernel process, with
\* exactly the Request { inherit: false, expects_response: None, body: "run",
\* metadata: None, capabilities: [] }.
IsRun(message) ==
    /\ message.kind = "Request"
    /\ message.source = OurKernel
    /\ message.inherit = FALSE
    /\ message.expects_response = None
    /\ message.body = << "run" >>
    /\ message.metadata = None
    /\ message.capabilities = << >>

\* One turn of the while loop: buffer the entry, or break on the Run envelope.
PreBootRecv ==
    /\ phase = "PreBoot"
    /\ recv_in_process # << >>
    /\ recv_in_process' = Tail(recv_in_process)
    /\ IF IsRun(Head(recv_in_process))
       THEN /\ phase' = "Replay"
            /\ arrived' = Without(arrived, Head(recv_in_process))
            /\ UNCHANGED pre_boot_queue
       ELSE /\ pre_boot_queue' = Append(pre_boot_queue, Head(recv_in_process))
            /\ UNCHANGED << phase, arrived >>
    /\ UNCHANGED << message_queue, contexts, timers, current_incoming_message,
                    nested_request, last_blob, send_to_loop, awaiting, held, metadata,
                    exit, unanswered, nsent, ndelivered, handed, last >>
    /\ UNCHANGED services

\* Where a replayed entry goes: the sending side of the process's own inbox.
Replayed(inbox, message) == Append(inbox, message)

\* One turn of the replay loop: send_to_process.send(message).await, which
\* suspends while the inbox is full.
ReplayOne ==
    /\ phase = "Replay"
    /\ pre_boot_queue # << >>
    /\ Len(recv_in_process) < InboxCapacity
    /\ recv_in_process' = Replayed(recv_in_process, Head(pre_boot_queue))
    /\ pre_boot_queue' = Tail(pre_boot_queue)
    /\ UNCHANGED << phase, message_queue, contexts, timers, current_incoming_message,
                    nested_request, last_blob, send_to_loop, awaiting, held, metadata,
                    exit, unanswered, nsent, ndelivered, arrived, handed, last >>
    /\ UNCHANGED services

\* The component is instantiated and init is called.
StartComponent ==
    /\ phase = "Replay"
    /\ pre_boot_queue = << >>
    /\ phase' = "Running"
    /\ UNCHANGED << recv_in_process, pre_boot_queue, message_queue, contexts, timers,
                    current_incoming_message, nested_request, last_blob, send_to_loop,
                    awaiting, held, metadata, exit, unanswered, nsent, ndelivered,
                    arrived, handed, last >>
    /\ UNCHANGED services

(***************************************************************************)
(* The environment of the instance: the dispatch loop, the targets of its  *)
(* requests, and its timeout tasks.                                        *)
(***************************************************************************)
\* A sender suspends while the bounded inbox is full.
InboxHasRoom == Len(recv_in_process) < InboxCapacity

\* The dispatch loop delivers an envelope to the inbox.
Deliver(e) ==
    /\ phase \in {"PreBoot", "Replay", "Running"}
    /\ InboxHasRoom
    /\ recv_in_process' = Append(recv_in_process, e)
    /\ arrived' = Append(arrived, e)
    /\ ndelivered' = ndelivered + 1
    /\ UNCHANGED << phase, pre_boot_queue, message_queue, contexts, timers,
                    current_incoming_message, nested_request, last_blob, send_to_loop,
                    awaiting, held, metadata, exit, unanswered, nsent, handed, last >>
    /\ UNCHANGED services

\* The Response of the target of a timed request.
Answer(u) ==
    [Response(u.id, u.target, FALSE, << "re" >>, << >>, None) EXCEPT !.re = u.re]

\* The target of a timed request answers it, once.
Respond(u) ==
    /\ phase = "Running"
    /\ InboxHasRoom
    /\ recv_in_process' = Append(recv_in_process, Answer(u))
    /\ arrived' = Append(arrived, Answer(u))
    /\ unanswered' = unanswered \ {u}
    /\ ndelivered' = ndelivered + 1
    /\ UNCHANGED << phase, pre_boot_queue, message_queue, contexts, timers,
                    current_incoming_message, nested_request, last_blob, send_to_loop,
                    awaiting, held, metadata, exit, nsent, handed, last >>
    /\ UNCHANGED services

\* The timeout task of send_request: after the sleep, a Timeout send error
\* with the request's id is sent to the process's own inbox.
TimeoutError(r) ==
    [SendError(timers[r].id, timers[r].target, "Timeout", timers[r].blob)
        EXCEPT !.re = r]

TimerFire(r) ==
    /\ r \in DOMAIN timers
    /\ InboxHasRoom
    /\ recv_in_process' = Append(recv_in_process, TimeoutError(r))
    /\ arrived' = Append(arrived, TimeoutError(r))
    /\ timers' = RemoveKey(timers, r)
    /\ UNCHANGED << phase, pre_boot_queue, message_queue, contexts,
                    current_incoming_message, nested_request, last_blob, send_to_loop,
                    awaiting, held, metadata, exit, unanswered, nsent, ndelivered,
                    handed, last >>
    /\ UNCHANGED services

(***************************************************************************)
(* make_process_loop: the exit path                                        *)
(***************************************************************************)
\* init returns, cleanly or with an error.
ReturnFromInit(is_error) ==
    /\ phase = "Running"
    /\ awaiting = None
    /\ phase' = "Exiting"
    /\ exit' = [exit EXCEPT !.is_error = is_error]
    /\ UNCHANGED << recv_in_process, pre_boot_queue, message_queue, contexts, timers,
                    current_incoming_message, nested_request, last_blob, send_to_loop,
                    awaiting, held, metadata, unanswered, nsent, ndelivered, arrived,
                    handed, last >>
    /\ UNCHANGED services

\* "get caps before killing": CapMessage::GetAll answered by the oracle.
GetAllCaps ==
    /\ phase = "Exiting"
    /\ exit' = [exit EXCEPT !.initial_capabilities = held]
    /\ phase' = "Kill"
    /\ UNCHANGED << recv_in_process, pre_boot_queue, message_queue, contexts, timers,
                    current_incoming_message, nested_request, last_blob, send_to_loop,
                    awaiting, held, metadata, unanswered, nsent, ndelivered, arrived,
                    handed, last >>
    /\ UNCHANGED services

\* A request from the local kernel process to itself carrying a KernelCommand.
KernelCommand(id, body, blob) ==
    Envelope("Request", id, OurKernel, OurKernel, None, FALSE, None, body, None,
             << >>, blob)

\* A kill command that would name another process.
KillPeer(id) == KernelCommand(id, << "KillProcess", PeerQ.process >>, None)

KillProcess(id) == KernelCommand(id, << "KillProcess", Our.process >>, None)

RunProcess(id) == KernelCommand(id, << "RunProcess", Our.process >>, None)

\* A restart that would ask the oracle for the capabilities as it sends the
\* command, after the kill.
InitializeWithHeld(id) ==
    KernelCommand(id, << "InitializeProcess", Our.process, metadata.wasm_bytes_handle,
                         metadata.on_exit, held, metadata.public >>,
                  Some("wasm_bytes"))

InitializeProcess(id) ==
    KernelCommand(id, << "InitializeProcess", Our.process, metadata.wasm_bytes_handle,
                         metadata.on_exit, exit.initial_capabilities, metadata.public >>,
                  Some("wasm_bytes"))

\* "send message to tell main kernel loop to remove handler"
EmitKill ==
    /\ phase = "Kill"
    /\ \E id \in Ids :
          /\ send_to_loop' = << KillProcess(id) >>
          /\ exit' = [exit EXCEPT !.emitted = @ \o send_to_loop']
    /\ phase' = "OnExit"
    /\ UNCHANGED << recv_in_process, pre_boot_queue, message_queue, contexts, timers,
                    current_incoming_message, nested_request, last_blob, awaiting, held,
                    metadata, unanswered, nsent, ndelivered, arrived, handed, last >>
    /\ UNCHANGED services

\* A Restart policy that would fire after a crash as well.
RestartAlways == TRUE

\* `if is_error { "skipping OnExit::Restart ... due to crash" } else { ... }`
RestartFires == ~ exit.is_error

\* OnExit::None, and OnExit::Restart after a crash: nothing more is emitted.
OnExitNothing ==
    /\ phase = "OnExit"
    /\ \/ metadata.on_exit.kind = "None"
       \/ metadata.on_exit.kind = "Restart" /\ ~ RestartFires
    /\ phase' = "Done"
    /\ send_to_loop' = << >>
    /\ UNCHANGED << recv_in_process, pre_boot_queue, message_queue, contexts, timers,
                    current_incoming_message, nested_request, last_blob, awaiting, held,
                    metadata, exit, unanswered, nsent, ndelivered, arrived, handed, last >>
    /\ UNCHANGED services

\* OnExit::Restart after a clean return: InitializeProcess, then RunProcess.
OnExitRestart ==
    /\ phase = "OnExit"
    /\ metadata.on_exit.kind = "Restart"
    /\ RestartFires
    /\ \E id1 \in Ids, id2 \in Ids :
          /\ send_to_loop' = << InitializeProcess(id1), RunProcess(id2) >>
          /\ exit' = [exit EXCEPT !.emitted = @ \o send_to_loop']
    /\ phase' = "Done"
    /\ UNCHANGED << recv_in_process, pre_boot_queue, message_queue, contexts, timers,
                    current_incoming_message, nested_request, last_blob, awaiting, held,
                    metadata, unanswered, nsent, ndelivered, arrived, handed, last >>
    /\ UNCHANGED services

\* The capability to message `address`.
Messaging(address) == Cap(address, "\"messaging\"")

\* CapMessage::Has for the messaging capability issued by `address`.
HasMessaging(address) == Messaging(address) \in held

\* The envelope of one OnExit request (address, request, blob).
OnExitEnvelope(id, r) ==
    Envelope("Request", id, Our, r.address, None, r.request.inherit, None,
             r.request.body, r.request.metadata, r.request.capabilities, r.blob)

\* One turn of the loop over OnExit::Requests.
OnExitRequest ==
    /\ phase = "OnExit"
    /\ metadata.on_exit.kind = "Requests"
    /\ exit.i <= Len(metadata.on_exit.requests)
    /\ LET r == metadata.on_exit.requests[exit.i]
       IN  IF HasMessaging(r.address)
           THEN \E id \in Ids : send_to_loop' = << OnExitEnvelope(id, r) >>
           ELSE send_to_loop' = << >>
    /\ exit' = [exit EXCEPT !.i = @ + 1, !.emitted = @ \o send_to_loop']
    /\ UNCHANGED << phase, recv_in_process, pre_boot_queue, message_queue, contexts,
                    timers, current_incoming_message, nested_request, last_blob,
                    awaiting, held, metadata, unanswered, nsent, ndelivered, arrived,
                    handed, last >>
    /\ UNCHANGED services

OnExitRequestsDone ==
    /\ phase = "OnExit"
    /\ metadata.on_exit.kind = "Requests"
    /\ exit.i > Len(metadata.on_exit.requests)
    /\ phase' = "Done"
    /\ UNCHANGED << recv_in_process, pre_boot_queue, message_queue, contexts, timers,
                    current_incoming_message, nested_request, last_blob, send_to_loop,
                    awaiting, held, metadata, exit, unanswered, nsent, ndelivered,
                    arrived, handed, last >>
    /\ UNCHANGED services

\* The kernel handles the KillProcess the instance sent: the record of the
\* process and the capabilities the oracle holds for it are dropped.
KernelKill ==
    /\ phase \in {"OnExit", "Done"}
    /\ held # {}
    /\ held' = {}
    /\ UNCHANGED << phase, recv_in_process, pre_boot_queue, message_queue, contexts,
                    timers, current_incoming_message, nested_request, last_blob,
                    send_to_loop, awaiting, metadata, exit, unanswered, nsent,
                    ndelivered, arrived, handed, last >>
    /\ UNCHANGED services

(***************************************************************************)
(* state.rs: the persistent state service                                  *)
(*                                                                         *)
(* A request is a record [id, source, rsvp, expects_response, action,      *)
(* process_id, payload]; a task is a record [km, pc, result] whose place   *)
(* in state_tasks is the order in which state_sender received its request. *)
(***************************************************************************)
STATE_PROCESS_ID == "state"

\* ProcessId::to_hash: the key a process id is stored under.
ToHash(process_id) == << "hash", process_id >>

Put(store, key, value) ==
    [k \in DOMAIN store \cup {key} |-> IF k = key THEN value ELSE store[k]]

StateRequest(id, source, expects, action, process_id, payload) ==
    [id |-> id, source |-> source, rsvp |-> None, expects_response |-> expects,
     action |-> action, process_id |-> process_id, payload |-> payload]

\* The address a response goes to: rsvp, else the source when the request
\* expects a response, else nobody.
StateResponseTarget(km) ==
    IF IsSome(km.rsvp) THEN km.rsvp
    ELSE IF IsSome(km.expects_response)
         THEN Some(Addr(OurNode, km.source.process))
         ELSE None

\* The Response that ends handle_request, if anybody is to get one.
StateResponse(km, ipc, bytes) ==
    IF IsSome(StateResponseTarget(km))
    THEN << [id |-> km.id, source |-> Addr(OurNode, STATE_PROCESS_ID),
             target |-> Unwrap(StateResponseTarget(km)), ipc |-> << ipc >>,
             payload |-> bytes] >>
    ELSE << >>

\* make_error_message: the Response that carries StateResponse::Err.
MakeErrorMessage(km, error) ==
    << [id |-> km.id, source |-> Addr(OurNode, STATE_PROCESS_ID),
        target |-> IF IsSome(km.rsvp) THEN Unwrap(km.rsvp) ELSE km.source,
        ipc |-> << "Err", error >>, payload |-> None] >>

\* state_sender: a request from another node is refused; for any other one
\* a task is spawned that will run handle_request.
StateRecv(km) ==
    /\ state_tasks' =
          IF km.source.node # OurNode
          THEN state_tasks
          ELSE Append(state_tasks, [km |-> km, pc |-> "spawned", result |-> << >>])
    /\ UNCHANGED << db, checkpoint, process_map, state_out,
                    process_queues, queue_lock, vfs_tasks, vfs_out,
                    vfs_loop, vfs_store >>
    /\ UNCHANGED instance

\* The task ends with `result` sent to the dispatch loop.
StateTaskEnds(t, result) ==
    /\ state_tasks' = [state_tasks EXCEPT ![t].pc = "done", ![t].result = result]
    /\ state_out' = state_out \o result

\* A DeleteState that would fail on a key that is not stored.
DeleteStored(store, km) ==
    IF ToHash(km.process_id) \in DOMAIN store
    THEN [store |-> RemoveKey(store, ToHash(km.process_id)),
          result |-> StateResponse(km, "DeleteState", None)]
    ELSE [store |-> store, result |-> MakeErrorMessage(km, "RocksDBError")]

\* StateAction::DeleteState: db.delete(key), which succeeds on any key.
DeleteState(store, km) ==
    [store |-> RemoveKey(store, ToHash(km.process_id)),
     result |-> StateResponse(km, "DeleteState", None)]

\* StateAction::SetState: db.put(key, payload.bytes), BadBytes without payload.
SetState(store, km) ==
    IF km.payload = None
    THEN [store |-> store, result |-> MakeErrorMessage(km, "BadBytes")]
    ELSE [store |-> Put(store, ToHash(km.process_id), Unwrap(km.payload)),
          result |-> StateResponse(km, "SetState", None)]

\* StateAction::GetState: db.get(key), NotFound when nothing is stored.
GetState(store, km) ==
    IF ToHash(km.process_id) \in DOMAIN store
    THEN [store |-> store,
          result |-> StateResponse(km, "GetState", Some(store[ToHash(km.process_id)]))]
    ELSE [store |-> store, result |-> MakeErrorMessage(km, "NotFound")]

\* What handle_request does to the store for the three key actions.
Apply(store, km) ==
    CASE km.action = "SetState" -> SetState(store, km)
      [] km.action = "GetState" -> GetState(store, km)
      [] km.action = "DeleteState" -> DeleteState(store, km)

\* A spawned task runs handle_request for SetState, GetState or DeleteState.
HandleRequest(t) ==
    /\ t \in DOMAIN state_tasks
    /\ state_tasks[t].pc = "spawned"
    /\ state_tasks[t].km.action \in {"SetState", "GetState", "DeleteState"}
    /\ LET r == Apply(db, state_tasks[t].km)
       IN  /\ db' = r.store
           /\ StateTaskEnds(t, r.result)
    /\ UNCHANGED << checkpoint, process_map,
                    process_queues, queue_lock, vfs_tasks, vfs_out,
                    vfs_loop, vfs_store >>
    /\ UNCHANGED instance

\* StateAction::Backup, up to the creation of the checkpoint: a checkpoint
\* directory that exists is removed, which suspends the task (remove_dir_all
\* is awaited).
BackupRemove(t) ==
    /\ t \in DOMAIN state_tasks
    /\ state_tasks[t].pc = "spawned"
    /\ state_tasks[t].km.action = "Backup"
    /\ checkpoint # None
    /\ checkpoint' = None
    /\ state_tasks' = [state_tasks EXCEPT ![t].pc = "create"]
    /\ UNCHANGED << db, process_map, state_out,
                    process_queues, queue_lock, vfs_tasks, vfs_out,
                    vfs_loop, vfs_store >>
    /\ UNCHANGED instance

\* StateAction::Backup: Checkpoint::create_checkpoint(..).unwrap().  It fails
\* when the directory exists, and the unwrap then ends the task by a panic.
BackupCreate(t) ==
    /\ t \in DOMAIN state_tasks
    /\ state_tasks[t].km.action = "Backup"
    /\ \/ state_tasks[t].pc = "create"
       \/ state_tasks[t].pc = "spawned" /\ checkpoint = None
    /\ IF checkpoint = None
       THEN /\ checkpoint' = Some(db)
            /\ StateTaskEnds(t, StateResponse(state_tasks[t].km, "Backup", None))
       ELSE /\ state_tasks' = [state_tasks EXCEPT ![t].pc = "panicked"]
            /\ UNCHANGED << checkpoint, state_out >>
    /\ UNCHANGED << db, process_map,
                    process_queues, queue_lock, vfs_tasks, vfs_out,
                    vfs_loop, vfs_store >>
    /\ UNCHANGED instance

(***************************************************************************)
(* state.rs: load_state and bootstrap                                      *)
(*                                                                         *)
(* A process id is the string name:package:publisher.  A package is a      *)
(* record [name, publisher, metadata, manifest]: metadata tells whether    *)
(* the zip holds metadata.json, manifest is the parsed manifest.json, if   *)
(* any.                                                                    *)
(***************************************************************************)
VFS_PROCESS_ID == "vfs:sys:uqbar"

PersistedProcess(wasm_bytes_handle, on_panic, capabilities, public) ==
    [wasm_bytes_handle |-> wasm_bytes_handle, on_panic |-> on_panic,
     capabilities |-> capabilities, public |-> public]

\* runtime_caps: messaging to every runtime module, and the network.
RuntimeCaps(runtime_extensions) ==
    {Messaging(Addr(OurNode, "kernel:sys:uqbar")), Messaging(Addr(OurNode, "net:sys:uqbar"))}
    \cup {Messaging(Addr(OurNode, runtime_extensions[i].id)) :
              i \in DOMAIN runtime_extensions}
    \cup {Cap(Addr(OurNode, KERNEL_PROCESS_ID), "\"network\"")}

\* The first runtime extension with the id `pid` (entry().or_insert keeps it).
FirstExtension(runtime_extensions, pid) ==
    runtime_extensions[Min({i \in DOMAIN runtime_extensions :
                               runtime_extensions[i].id = pid})]

\* "save runtime modules in state map as well, somewhat fakely"
RuntimeProcesses(runtime_extensions) ==
    [pid \in {"kernel:sys:uqbar", "net:sys:uqbar"}
              \cup {runtime_extensions[i].id : i \in DOMAIN runtime_extensions} |->
        PersistedProcess("", "Restart", RuntimeCaps(runtime_extensions),
            IF pid \in {"kernel:sys:uqbar", "net:sys:uqbar"}
            THEN FALSE
            ELSE FirstExtension(runtime_extensions, pid).public)]

\* format!("{}:{}:{}", entry.process_name, package_name, package_publisher)
OurProcessId(entry, package) ==
    entry.process_name \o ":" \o package.name \o ":" \o package.publisher

\* format!("/kernel:sys:uqbar/{}", [package_name, package_publisher].join(":"))
DrivePath(package) == "/kernel:sys:uqbar/" \o package.name \o ":" \o package.publisher

\* The capability of the vfs for one kind of access to a drive.
DriveCap(kind, drive) ==
    Cap(Addr(OurNode, VFS_PROCESS_ID),
        "{\"kind\":\"" \o kind \o "\",\"drive\":\"" \o drive \o "\"}")

\* The names the manifest entry asks to message.
RequestedMessaging(entry) ==
    IF IsSome(entry.request_messaging) THEN Unwrap(entry.request_messaging) ELSE << >>

\* A bootstrap that would grant the names of the manifest entry only.
OnlyRequestedMessaging(entry, package) == RequestedMessaging(entry)

\* request_messaging.push(our_process_id.clone())
MessagingNames(entry, package) ==
    Append(RequestedMessaging(entry), OurProcessId(entry, package))

\* requested_caps of one manifest entry.
RequestedCaps(entry, package) ==
    {Messaging(Addr(OurNode, MessagingNames(entry, package)[i])) :
        i \in DOMAIN MessagingNames(entry, package)}
    \cup (IF entry.request_networking
          THEN {Cap(Addr(OurNode, KERNEL_PROCESS_ID), "\"network\"")}
          ELSE {})
    \cup {DriveCap("read", DrivePath(package)), DriveCap("write", DrivePath(package))}

\* process_map.insert for the entries of one manifest, in order.
RECURSIVE InsertEntries(_, _, _)
InsertEntries(map, package, entries) ==
    IF entries = << >>
    THEN map
    ELSE InsertEntries(
             Put(map, OurProcessId(Head(entries), package),
                 PersistedProcess(DrivePath(package) \o "/" \o Head(entries).process_wasm_path,
                                  Head(entries).on_panic,
                                  RequestedCaps(Head(entries), package),
                                  Head(entries).public)),
             package, Tail(entries))

\* A package without metadata.json or without manifest.json is skipped.
Skipped(package) == ~ package.metadata \/ package.manifest = None

\* The loop of bootstrap over the zipped packages.
RECURSIVE InsertPackages(_, _)
InsertPackages(map, packages) ==
    IF packages = << >>
    THEN map
    ELSE InsertPackages(
             IF Skipped(Head(packages))
             THEN map
             ELSE InsertEntries(map, Head(packages), Unwrap(Head(packages).manifest)),
             Tail(packages))

\* bootstrap on an empty process map.
Bootstrap(runtime_extensions, packages) ==
    InsertPackages(RuntimeProcesses(runtime_extensions), packages)

\* bincode::serialize / bincode::deserialize of a ProcessMap.
Serialize(map) == << "bincode", map >>
Deserialize(value) == value[2]

\* A load_state that would bootstrap on every boot.
AlwaysBootstrap(store) == TRUE

\* db.get(kernel_id) returns Ok(None).
NeedsBootstrap(store) == ToHash(KERNEL_PROCESS_ID) \notin DOMAIN store

\* load_state at a boot of the node, with the packages then found on disk.
LoadState(runtime_extensions, packages) ==
    /\ \A t \in DOMAIN state_tasks : state_tasks[t].pc # "spawned"
    /\ IF NeedsBootstrap(db)
       THEN /\ process_map' =
                  [returned |-> Bootstrap(runtime_extensions, packages),
                   loads |-> process_map.loads + 1,
                   bootstraps |-> process_map.bootstraps + 1,
                   packages |-> packages]
            /\ db' = Put(db, ToHash(KERNEL_PROCESS_ID),
                         Serialize(Bootstrap(runtime_extensions, packages)))
       ELSE /\ process_map' =
                  [process_map EXCEPT
                     !.returned = Deserialize(db[ToHash(KERNEL_PROCESS_ID)]),
                     !.loads = @ + 1]
            /\ db' = db
    /\ UNCHANGED << checkpoint, state_tasks, state_out,
                    process_queues, queue_lock, vfs_tasks, vfs_out,
                    vfs_loop, vfs_store >>
    /\ UNCHANGED instance

(***************************************************************************)
(* vfs.rs: the request loop of the vfs                                     *)
(*                                                                         *)
(* A request is a record [id, source, rsvp, expects_response, action,      *)
(* path, new_path, op]: path is the list of the components of              *)
(* request.path, new_path the argument of Rename, and op a history field,  *)
(* the number of the request among those of its source.  A task is a       *)
(* record [source, pc, km, file, ipc]: km is the request it popped, file   *)
(* the handle open_file gave it, and ipc, a history field, how             *)
(* handle_request ended.                                                   *)
(***************************************************************************)
VfsRequest(id, source, rsvp, expects, action, path, new_path) ==
    [id |-> id, source |-> source, rsvp |-> rsvp, expects_response |-> expects,
     action |-> action, path |-> path, new_path |-> new_path, op |-> 0]

\* The queue of a source process, empty when none was created yet.
QueueOf(process) ==
    IF \E p \in DOMAIN process_queues : p = process
    THEN process_queues[process]
    ELSE << >>

\* The mutex of the queue of a source is free.
QueueFree(process) == \A p \in DOMAIN queue_lock : p = process => queue_lock[p] = 0

\* The requests of a source the loop has pushed so far.
Issued(process) ==
    Cardinality({t \in DOMAIN vfs_tasks : vfs_tasks[t].source = process})

\* The vfs loop takes a request from its channel: one from another node is
\* refused, any other one is kept for the queue of its source.
VfsRecv(km) ==
    /\ vfs_loop = None
    /\ vfs_loop' = IF km.source.node # OurNode THEN None ELSE Some(km)
    /\ UNCHANGED << db, checkpoint, process_map, state_tasks, state_out,
                    process_queues, queue_lock, vfs_tasks, vfs_out, vfs_store >>
    /\ UNCHANGED instance

\* The vfs loop takes the mutex of the queue, pushes the request, lets go of
\* the mutex, spawns a task and turns to its channel again.
VfsPush ==
    /\ vfs_loop # None
    /\ QueueFree(Unwrap(vfs_loop).source.process)
    /\ LET km == Unwrap(vfs_loop)
       IN  /\ process_queues' =
                 Put(process_queues, km.source.process,
                     Append(QueueOf(km.source.process),
                            [km EXCEPT !.op = Issued(km.source.process) + 1]))
           /\ vfs_tasks' = Append(vfs_tasks, [source |-> km.source.process,
                                              pc |-> "spawned", km |-> None,
                                              file |-> 0, ipc |-> ""])
    /\ vfs_loop' = None
    /\ UNCHANGED << db, checkpoint, process_map, state_tasks, state_out,
                    queue_lock, vfs_out, vfs_store >>
    /\ UNCHANGED instance

\* A task that would let go of the queue once it has popped its request.
ReleasedAfterPop(t) == 0

\* queue_lock lives to the end of the task: the mutex stays with task t
\* while it handles the request.
HeldWhileHandling(t) == t

\* A pop that would leave the request in the queue.
Peeked(queue) == queue

\* pop_front: what is left of the queue.
Popped(queue) == Tail(queue)

\* A spawned task takes the mutex of its queue and pops the front request.
VfsPop(t) ==
    /\ t \in DOMAIN vfs_tasks
    /\ vfs_tasks[t].pc = "spawned"
    /\ QueueFree(vfs_tasks[t].source)
    /\ IF QueueOf(vfs_tasks[t].source) = << >>
       THEN /\ vfs_tasks' = [vfs_tasks EXCEPT ![t].pc = "done"]
            /\ UNCHANGED << process_queues, queue_lock >>
       ELSE /\ vfs_tasks' =
                  [vfs_tasks EXCEPT ![t].pc = "handling",
                                    ![t].km = Some(Head(QueueOf(vfs_tasks[t].source)))]
            /\ process_queues' =
                  [process_queues EXCEPT ![vfs_tasks[t].source] = Popped(@)]
            /\ queue_lock' = Put(queue_lock, vfs_tasks[t].source, HeldWhileHandling(t))
    /\ UNCHANGED << db, checkpoint, process_map, state_tasks, state_out, vfs_out,
                    vfs_loop, vfs_store >>
    /\ UNCHANGED instance

\* An answer that would always go to the source of the request.
AnswerToSource(km) ==
    IF IsSome(km.expects_response) \/ IsSome(km.rsvp)
    THEN Some(Addr(OurNode, km.source.process))
    ELSE None

\* km.rsvp.or_else(|| expects_response.map(|_| source on our node))
ResponseTarget(km) ==
    IF IsSome(km.rsvp) THEN km.rsvp
    ELSE IF IsSome(km.expects_response)
         THEN Some(Addr(OurNode, km.source.process))
         ELSE None

\* A message of the vfs to the dispatch loop; source and op are history
\* fields, the request it answers.
VfsResponse(km, target, ipc) ==
    [id |-> km.id, target |-> target, ipc |-> ipc,
     source |-> km.source.process, op |-> km.op]

\* The message that ends the handling of `km`: the Response when
\* handle_request returns Ok and somebody is to get one, the error message
\* of make_error_message when it returns Err.
VfsAnswer(km, ipc) ==
    IF ipc # "Ok"
    THEN << VfsResponse(km, km.source, ipc) >>
    ELSE IF IsSome(ResponseTarget(km))
         THEN << VfsResponse(km, Unwrap(ResponseTarget(km)), ipc) >>
         ELSE << >>

\* handle_request has returned: its answer is sent to the dispatch loop and
\* the task ends, which frees the mutex it holds.
TaskEnds(t, ipc) ==
    /\ vfs_out' = vfs_out \o VfsAnswer(Unwrap(vfs_tasks[t].km), ipc)
    /\ vfs_tasks' = [vfs_tasks EXCEPT ![t].pc = "done", ![t].ipc = ipc]
    /\ queue_lock' =
          IF queue_lock[vfs_tasks[t].source] = t
          THEN [queue_lock EXCEPT ![vfs_tasks[t].source] = 0]
          ELSE queue_lock

\* handle_request as a whole, for the properties of the loop: it returns Ok
\* or an error, and what it does to the files is left out.
VfsHandled(t, ok) ==
    /\ t \in DOMAIN vfs_tasks
    /\ vfs_tasks[t].pc = "handling"
    /\ TaskEnds(t, IF ok THEN "Ok" ELSE "Err")
    /\ UNCHANGED << db, checkpoint, process_map, state_tasks, state_out,
                    process_queues, vfs_loop, vfs_store >>
    /\ UNCHANGED instance

(***************************************************************************)
(* vfs.rs: handle_request                                                  *)
(*                                                                         *)
(* A path is the list of its components.  disk is a record [dirs, files]   *)
(* of the directories and files that exist; open_files is a set of         *)
(* records [path, file], at most one per path; caps_oracle is a set of     *)
(* records [on, cap]; file_handles[h] is the task that holds the mutex of  *)
(* file handle h, 0 when it is free.  A task goes from "handling" through  *)
(* check_caps to "checked", through open_file ("opening" while the file is *)
(* being opened, then "opened") and the mutex of the handle ("locked") to  *)
(* "done".                                                                 *)
(***************************************************************************)
\* The vfs directory: create_dir_all(<home>/vfs) at the start of vfs().
VfsPath == << "vfs" >>

\* PackageId::new(process.package(), process.publisher()); every process of
\* the model is the one process of its package.
PackageOf(process) ==
    CASE process = "Q" -> "q:pub"
      [] process = "R" -> "r:pub"
      [] process = "P" -> "p:pub"
      [] OTHER -> "sys:uqbar"

\* parse_package_and_drive: None when the path has fewer than two parts.
ParsePackageAndDrive(path) ==
    IF Len(path) < 2 THEN None
    ELSE Some([package_id |-> path[1], drive |-> path[2],
               rest |-> SubSeq(path, 3, Len(path))])

\* format!("/{}/{}", package_id, drive)
DriveOf(parsed) == "/" \o parsed.package_id \o "/" \o parsed.drive

\* format!("{}{}", vfs_dir_path, drive)
DriveDir(parsed) == VfsPath \o << parsed.package_id, parsed.drive >>

\* format!("{}{}/{}", vfs_path, drive, rest)
RealPath(parsed) == DriveDir(parsed) \o parsed.rest

Parent(path) == SubSeq(path, 1, Len(path) - 1)

ReadActions ==
    {"Read", "ReadDir", "ReadExact", "ReadToEnd", "ReadToString", "Seek", "Hash",
     "Metadata", "Len"}

RootCap == Cap(Addr(OurNode, VFS_PROCESS_ID), "{\"root\":true}")

\* A check that would ask for the write capability whatever the action.
WriteCapAlways(action, drive) == DriveCap("write", drive)

\* The capability check_caps asks the oracle about.
RequiredCap(action, drive) ==
    IF action = "CreateDrive" THEN RootCap
    ELSE IF action \in ReadActions THEN DriveCap("read", drive)
    ELSE DriveCap("write", drive)

\* CapMessage::Has
HasCap(process, cap) == [on |-> process, cap |-> cap] \in caps_oracle

\* check_caps returns Ok.
CapsOk(km, parsed) ==
    \/ PackageOf(km.source.process) = parsed.package_id
    \/ HasCap(km.source.process, RequiredCap(km.action, DriveOf(parsed)))

\* add_capability, for "read" and for "write".
AddCapabilities(process, drive) ==
    {[on |-> process, cap |-> DriveCap(kind, drive)] : kind \in {"read", "write"}}

\* The head of handle_request: the path is parsed and, for a source other
\* than the kernel process, check_caps runs, which for CreateDrive also adds
\* the capabilities and creates the directory of the drive.
CheckCaps(t) ==
    /\ t \in DOMAIN vfs_tasks
    /\ vfs_tasks[t].pc = "handling"
    /\ LET km == Unwrap(vfs_tasks[t].km)
           parsed == ParsePackageAndDrive(km.path)
       IN  IF parsed = None
           THEN TaskEnds(t, "ParseError") /\ UNCHANGED vfs_store
           ELSE IF km.source.process # KERNEL_PROCESS_ID /\ ~ CapsOk(km, Unwrap(parsed))
           THEN TaskEnds(t, "NoCap") /\ UNCHANGED vfs_store
           ELSE /\ vfs_tasks' = [vfs_tasks EXCEPT ![t].pc = "checked"]
                /\ IF km.action = "CreateDrive" /\ km.source.process # KERNEL_PROCESS_ID
                   THEN /\ caps_oracle' =
                              caps_oracle \cup
                                  AddCapabilities(km.source.process, DriveOf(Unwrap(parsed)))
                        /\ disk' = [disk EXCEPT !.dirs = @ \cup {DriveDir(Unwrap(parsed))}]
                   ELSE UNCHANGED << caps_oracle, disk >>
                /\ UNCHANGED << vfs_out, queue_lock, open_files, file_handles >>
    /\ UNCHANGED << db, checkpoint, process_map, state_tasks, state_out,
                    process_queues, vfs_loop >>
    /\ UNCHANGED instance

\* The actions that go through open_file, and those that create the file.
OpensFile(action) == action \in {"CreateFile", "OpenFile", "Write", "Read"}
Creates(action) == action \in {"CreateFile", "Write"}

PathOf(t) == RealPath(Unwrap(ParsePackageAndDrive(Unwrap(vfs_tasks[t].km).path)))

\* open_file: open_files.get(&path); a hit is the handle of the task, a miss
\* sends it to open the file.
OpenFileGet(t) ==
    /\ t \in DOMAIN vfs_tasks
    /\ vfs_tasks[t].pc = "checked"
    /\ OpensFile(Unwrap(vfs_tasks[t].km).action)
    /\ vfs_tasks' =
          IF \E e \in open_files : e.path = PathOf(t)
          THEN [vfs_tasks EXCEPT ![t].pc = "opened",
                                 ![t].file =
                                     (CHOOSE e \in open_files : e.path = PathOf(t)).file]
          ELSE [vfs_tasks EXCEPT ![t].pc = "opening"]
    /\ UNCHANGED << db, checkpoint, process_map, state_tasks, state_out,
                    process_queues, queue_lock, vfs_out, vfs_loop, vfs_store >>
    /\ UNCHANGED instance

\* open_file after the miss: OpenOptions::open, then a new handle replaces
\* whatever open_files holds for the path.
OpenFileInsert(t) ==
    /\ t \in DOMAIN vfs_tasks
    /\ vfs_tasks[t].pc = "opening"
    /\ LET create == Creates(Unwrap(vfs_tasks[t].km).action)
           path == PathOf(t)
           file == Len(file_handles) + 1
       IN  IF path \notin disk.files /\ ~ (create /\ Parent(path) \in disk.dirs)
           THEN TaskEnds(t, "IOError") /\ UNCHANGED vfs_store
           ELSE /\ disk' = [disk EXCEPT !.files = @ \cup {path}]
                /\ file_handles' = Append(file_handles, 0)
                /\ open_files' = {e \in open_files : e.path # path}
                                     \cup {[path |-> path, file |-> file]}
                /\ vfs_tasks' = [vfs_tasks EXCEPT ![t].pc = "opened", ![t].file = file]
                /\ UNCHANGED << vfs_out, queue_lock, caps_oracle >>
    /\ UNCHANGED << db, checkpoint, process_map, state_tasks, state_out,
                    process_queues, vfs_loop >>
    /\ UNCHANGED instance

\* file.lock().await of the actions that read or write the file.
LockFile(t) ==
    /\ t \in DOMAIN vfs_tasks
    /\ vfs_tasks[t].pc = "opened"
    /\ Unwrap(vfs_tasks[t].km).action \in {"Write", "Read"}
    /\ file_handles[vfs_tasks[t].file] = 0
    /\ file_handles' = [file_handles EXCEPT ![vfs_tasks[t].file] = t]
    /\ vfs_tasks' = [vfs_tasks EXCEPT ![t].pc = "locked"]
    /\ UNCHANGED << db, checkpoint, process_map, state_tasks, state_out,
                    process_queues, queue_lock, vfs_out, vfs_loop, disk, open_files,
                    caps_oracle >>
    /\ UNCHANGED instance

\* What the last step of an action leaves and returns.
Performed(t) ==
    LET km == Unwrap(vfs_tasks[t].km)
        path == PathOf(t)
        same == [ipc |-> "Ok", disk |-> disk, open_files |-> open_files,
                 file_handles |-> file_handles]
    IN  CASE vfs_tasks[t].pc = "locked" ->
                 [same EXCEPT !.file_handles[vfs_tasks[t].file] = 0]
          [] km.action = "CloseFile" ->
                 [same EXCEPT !.open_files = {e \in open_files : e.path # path}]
          [] km.action = "RemoveFile" ->
                 IF path \in disk.files
                 THEN [same EXCEPT !.disk.files = @ \ {path}]
                 ELSE [same EXCEPT !.ipc = "IOError"]
          [] km.action = "Rename" ->
                 IF path \in disk.files /\ Parent(km.new_path) \in disk.dirs
                 THEN [same EXCEPT !.disk.files = (@ \ {path}) \cup {km.new_path}]
                 ELSE [same EXCEPT !.ipc = "IOError"]
          [] OTHER -> same

\* The task is ready for the last step of its action.
AtLastStep(t) ==
    LET action == Unwrap(vfs_tasks[t].km).action
    IN  \/ vfs_tasks[t].pc = "locked"
        \/ vfs_tasks[t].pc = "opened" /\ action \in {"CreateFile", "OpenFile"}
        \/ vfs_tasks[t].pc = "checked" /\ ~ OpensFile(action)

\* The action is carried out (the mutex of the file is let go at its end),
\* the Response is sent and the task ends.
Complete(t) ==
    /\ t \in DOMAIN vfs_tasks
    /\ vfs_tasks[t].km # None
    /\ AtLastStep(t)
    /\ TaskEnds(t, Performed(t).ipc)
    /\ disk' = Performed(t).disk
    /\ open_files' = Performed(t).open_files
    /\ file_handles' = Performed(t).file_handles
    /\ UNCHANGED << db, checkpoint, process_map, state_tasks, state_out,
                    process_queues, vfs_loop, caps_oracle >>
    /\ UNCHANGED instance

(***************************************************************************)
(* packages/terminal: parse_command and handle_run                         *)
(*                                                                         *)
(* The terminal is the component of the instance.  A line is the body of   *)
(* a Request the terminal sent to itself, a list of characters.  The line  *)
(* being handled is the body of current_incoming_message: every request of *)
(* handle_run is sent while that Request is the current message, so it is  *)
(* the prompting message each answer restores.  The position in handle_run *)
(* is the number of requests sent so far together with the outcome of the  *)
(* last operation.                                                         *)
(***************************************************************************)
Digits == << "0", "1", "2", "3", "4", "5", "6", "7", "8", "9" >>

IsDigit(c) == \E i \in DOMAIN Digits : Digits[i] = c

DigitValue(c) == (CHOOSE i \in DOMAIN Digits : Digits[i] = c) - 1

\* time_str.parse::<u64>() of a run of digits
RECURSIVE ParseNumber(_)
ParseNumber(s) ==
    IF s = << >> THEN 0
    ELSE 10 * ParseNumber(SubSeq(s, 1, Len(s) - 1)) + DigitValue(s[Len(s)])

RECURSIVE TrimEnd(_)
TrimEnd(s) ==
    IF s # << >> /\ s[Len(s)] = " " THEN TrimEnd(SubSeq(s, 1, Len(s) - 1)) ELSE s

RECURSIVE TrimStart(_)
TrimStart(s) == IF s # << >> /\ s[1] = " " THEN TrimStart(Tail(s)) ELSE s

\* line.split_once(" ").unwrap_or((line, ""))
SplitOnce(s) ==
    IF \E i \in DOMAIN s : s[i] = " "
    THEN LET i == Min({k \in DOMAIN s : s[k] = " "})
         IN  << SubSeq(s, 1, i - 1), SubSeq(s, i + 1, Len(s)) >>
    ELSE << s, << >> >>

\* The last index of the run of digits that starts at index i.
RECURSIVE DigitsEnd(_, _)
DigitsEnd(s, i) ==
    IF i < Len(s) /\ IsDigit(s[i + 1]) THEN DigitsEnd(s, i + 1) ELSE i

\* Regex (.*?)\|(\d+)\s*(.*) on the arguments: the first bar that digits
\* follow splits them into the arguments proper, the time and the pipe.
ParsePipe(s) ==
    LET bars == {i \in DOMAIN s : s[i] = "|" /\ i < Len(s) /\ IsDigit(s[i + 1])}
    IN  IF bars = {} THEN << s, None >>
        ELSE LET i == Min(bars)
                 j == DigitsEnd(s, i + 1)
             IN  << TrimEnd(SubSeq(s, 1, i - 1)),
                    Some([target |-> TrimStart(SubSeq(s, j + 1, Len(s))),
                          time |-> ParseNumber(SubSeq(s, i + 1, j))]) >>

\* state.aliases.get(head), else head.parse::<ProcessId>(), which needs the
\* three parts of a process id.
ScriptOf(head) ==
    IF head = << "m" >> THEN Some("m:terminal:sys")
    ELSE IF Cardinality({i \in DOMAIN head : head[i] = ":"}) = 2 THEN Some(head)
    ELSE None

\* parse_command up to the call of handle_run: None for the empty line and
\* for "invalid script name".
ParseCommand(body) ==
    IF body = << >> \/ ScriptOf(SplitOnce(body)[1]) = None THEN None
    ELSE Some([process |-> Unwrap(ScriptOf(SplitOnce(body)[1])),
               args |-> ParsePipe(SplitOnce(body)[2])[1],
               pipe |-> ParsePipe(SplitOnce(body)[2])[2]])

\* The line the terminal is handling, and the arguments of handle_run.
Handling ==
    /\ phase = "Running"
    /\ awaiting = None
    /\ IsRequest(current_incoming_message)
    /\ Unwrap(current_incoming_message).source = Our
    /\ ParseCommand(Unwrap(current_incoming_message).body) # None

Command == Unwrap(ParseCommand(Unwrap(current_incoming_message).body))

\* The targets of handle_run: the kernel, the vfs and the new process, whose
\* random name is left out.
VfsAddress == Addr(OurNode, VFS_PROCESS_ID)
ScriptAddress == Addr(OurNode, "script")

TerminalRequest(target, inherit, expects, body) ==
    [target |-> target, inherit |-> inherit, expects_response |-> expects,
     body |-> body, capabilities |-> << >>, blob |-> None]

\* send_and_await_response(..)?? went well: a Response was handed over.
AwaitedResponse ==
    /\ last.op = "await"
    /\ Unwrap(last.res).kind = "Response"

\* The loop of init: wit::receive() hands the terminal the next message.
TerminalReceive ==
    /\ nsent = 0
    /\ last.op = "none"
    /\ GetNextMessageForProcess

\* get_entry: scripts.json is read from the drive of the script's package.
GetEntry ==
    /\ Handling
    /\ nsent = 0
    /\ last.op = "receive"
    /\ SendAndAwaitResponse(
           TerminalRequest(VfsAddress, FALSE, Some(5), << "Read", "scripts.json" >>))

\* get_entry found the blob; the wasm file of the script is read.
ReadWasm ==
    /\ Handling
    /\ nsent = 1
    /\ AwaitedResponse
    /\ last_blob # None
    /\ SendAndAwaitResponse(
           TerminalRequest(VfsAddress, FALSE, Some(5), << "Read", Command.process >>))

\* The entry of the script grants nothing to other processes, so the loop
\* over granted_caps sends nothing before InitializeProcess.
TerminalInitialize ==
    /\ Handling
    /\ nsent = 2
    /\ AwaitedResponse
    /\ SendAndAwaitResponse(
           TerminalRequest(OurKernel, TRUE, Some(5), << "InitializeProcess", "script" >>))

TerminalGrant ==
    /\ Handling
    /\ nsent = 3
    /\ AwaitedResponse
    /\ SendRequest(
           TerminalRequest(OurKernel, FALSE, None, << "GrantCapabilities", "script" >>),
           None)

TerminalRun ==
    /\ Handling
    /\ nsent = 4
    /\ last.op = "send_request"
    /\ SendAndAwaitResponse(
           TerminalRequest(OurKernel, FALSE, Some(5), << "RunProcess", "script" >>))

\* The arguments go to the script: sent without a pipe, awaited for the
\* time of the pipe with one.
RunScript ==
    /\ Handling
    /\ nsent = 5
    /\ AwaitedResponse
    /\ IF Command.pipe = None
       THEN SendRequest(TerminalRequest(ScriptAddress, FALSE, None, Command.args), None)
       ELSE SendAndAwaitResponse(
                TerminalRequest(ScriptAddress, FALSE, Some(Unwrap(Command.pipe).time),
                                Command.args))

\* The byte that makes a body invalid as UTF-8.
NotUtf8 == "0xFF"

\* String::from_utf8
FromUtf8(body) == IF \E i \in DOMAIN body : body[i] = NotUtf8 THEN None ELSE Some(body)

\* format!("{} {}", pipe.0, String::from_utf8(res.body().to_vec()).unwrap())
PipeBody(target, body) == target \o << " " >> \o Unwrap(FromUtf8(body))

\* The response of the script is piped to the terminal itself; the unwrap of
\* a body that is not UTF-8 panics, which ends the component.
PipeResponse ==
    /\ Handling
    /\ nsent = 6
    /\ AwaitedResponse
    /\ IF FromUtf8(Unwrap(last.out).body) = None
       THEN /\ phase' = "Exiting"
            /\ exit' = [exit EXCEPT !.is_error = TRUE]
            /\ UNCHANGED << recv_in_process, pre_boot_queue, message_queue, contexts,
                            timers, current_incoming_message, nested_request, last_blob,
                            send_to_loop, awaiting, held, metadata, unanswered, nsent,
                            ndelivered, arrived, handed, last >>
            /\ UNCHANGED services
       ELSE SendRequest(
                TerminalRequest(Our, FALSE, None,
                                PipeBody(Unwrap(Command.pipe).target,
                                         Unwrap(last.out).body)),
                None)

\* Environment: the target of a request answers it with some body and blob.
AnswerWith(u, body, blob) ==
    [Response(u.id, u.target, FALSE, body, << >>, blob) EXCEPT !.re = u.re]

Replies(u, body, blob) ==
    /\ phase = "Running"
    /\ InboxHasRoom
    /\ recv_in_process' = Append(recv_in_process, AnswerWith(u, body, blob))
    /\ arrived' = Append(arrived, AnswerWith(u, body, blob))
    /\ unanswered' = unanswered \ {u}
    /\ ndelivered' = ndelivered + 1
    /\ UNCHANGED << phase, pre_boot_queue, message_queue, contexts, timers,
                    current_incoming_message, nested_request, last_blob, send_to_loop,
                    awaiting, held, metadata, exit, nsent, handed, last >>
    /\ UNCHANGED services

(***************************************************************************)
(* Initial states and specifications.                                      *)
(***************************************************************************)
OnExitNone == [kind |-> "None", requests |-> << >>]
OnExitRestartPolicy == [kind |-> "Restart", requests |-> << >>]

Metadata(on_exit) ==
    [on_exit |-> on_exit, public |-> FALSE, wasm_bytes_handle |-> "handle"]

NoOp ==
    [op |-> "none", res |-> None, out |-> None, context |-> None, ret |-> None,
     args |-> None, new_context |-> None]

\* The vfs before its first request: the vfs directory exists and is empty,
\* no file is open, and the oracle holds nothing for the processes.
InitStore ==
    /\ disk = [dirs |-> {VfsPath}, files |-> {}]
    /\ open_files = {}
    /\ caps_oracle = {}
    /\ file_handles = << >>

\* The state service and the vfs loop before their first message.
InitServices ==
    /\ db = << >>
    /\ checkpoint = None
    /\ process_map = [returned |-> << >>, loads |-> 0, bootstraps |-> 0,
                      packages |-> << >>]
    /\ state_tasks = << >>
    /\ state_out = << >>
    /\ process_queues = << >>
    /\ queue_lock = << >>
    /\ vfs_tasks = << >>
    /\ vfs_out = << >>
    /\ vfs_loop = None

\* The instance as make_process_loop builds it, in phase `ph`.
InitInstance(ph, on_exit, caps) ==
    /\ phase = ph
    /\ recv_in_process = << >>
    /\ pre_boot_queue = << >>
    /\ message_queue = << >>
    /\ contexts = << >>
    /\ timers = << >>
    /\ current_incoming_message = None
    /\ nested_request = None
    /\ last_blob = None
    /\ send_to_loop = << >>
    /\ awaiting = None
    /\ held = caps
    /\ metadata = Metadata(on_exit)
    /\ exit = [is_error |-> FALSE, initial_capabilities |-> {}, i |-> 1,
               emitted |-> << >>]
    /\ unanswered = {}
    /\ nsent = 0
    /\ ndelivered = 0
    /\ arrived = << >>
    /\ handed = << >>
    /\ last = NoOp

InitWith(ph, on_exit, caps) ==
    /\ InitInstance(ph, on_exit, caps)
    /\ InitServices
    /\ InitStore

\* Inputs of the correlation specification: plain requests from a local peer
\* under every id, and sends with every combination of inherit and timeout.
PlainRequest(id) == Request(id, PeerQ, None, FALSE, None, << "x" >>, << >>, None)

Inbound == {PlainRequest(id) : id \in DrawableIds}

SendArgs(target, inherit, expects, caps, blob) ==
    [target |-> target, inherit |-> inherit, expects_response |-> expects,
     body |-> << "x" >>, capabilities |-> caps, blob |-> blob]

Timeout == Some(5)

Outbound ==
    {SendArgs(PeerQ, inherit, expects, << >>, None) :
        inherit \in BOOLEAN, expects \in {None, Timeout}}

\* The sends that expect a response.
TimedOutbound == {a \in Outbound : IsSome(a.expects_response)}

Init == InitWith("Running", OnExitNone, {})

\* A running process that receives, sends and awaits, with at most `sends`
\* requests sent and `deliveries` envelopes delivered.
Correlate(sends, deliveries) ==
    \/ ndelivered < deliveries /\ \E e \in Inbound : Deliver(e)
    \/ ndelivered < deliveries /\ \E u \in unanswered : Respond(u)
    \/ \E r \in DOMAIN timers : TimerFire(r)
    \/ GetNextMessageForProcess
    \/ nsent < sends /\ \E a \in Outbound : SendRequest(a, None)
    \/ nsent < sends /\ \E a \in TimedOutbound : SendAndAwaitResponse(a)
    \/ AwaitRecv

Next == Correlate(MaxSends, MaxDeliver)

Spec == Init /\ [][Next]_vars

\* The same process with one more request: three sends are what it takes to
\* await an id whose timeout error an earlier await has stashed.
NextDeep == Correlate(MaxSends + 1, MaxDeliver)

SpecDeep == Init /\ [][NextDeep]_vars

(***************************************************************************)
(* The boot specification: the instance from its creation, fed the Run     *)
(* envelope and its near misses.                                           *)
(***************************************************************************)
FromKernel(kind, source, inherit, expects, body, meta, caps, blob) ==
    Envelope(kind, 1, source, Our, None, inherit, expects, body, meta, caps, blob)

RunEnvelope ==
    FromKernel("Request", OurKernel, FALSE, None, << "run" >>, None, << >>, None)

FarKernel == Addr(FarNode, KERNEL_PROCESS_ID)

BootInbound ==
    { RunEnvelope,
      FromKernel("Request", OurKernel, FALSE, None, << "run" >>, None, << >>, Some("b")),
      FromKernel("Request", PeerQ, FALSE, None, << "run" >>, None, << >>, None),
      FromKernel("Request", FarKernel, FALSE, None, << "run" >>, None, << >>, None),
      FromKernel("Request", OurKernel, TRUE, None, << "run" >>, None, << >>, None),
      FromKernel("Request", OurKernel, FALSE, Timeout, << "run" >>, None, << >>, None),
      FromKernel("Request", OurKernel, FALSE, None, << "x" >>, None, << >>, None),
      FromKernel("Request", OurKernel, FALSE, None, << "run" >>, Some("m"), << >>, None),
      FromKernel("Request", OurKernel, FALSE, None, << "run" >>, None,
                 << Signed(Cap(OurKernel, "c")) >>, None),
      FromKernel("Response", OurKernel, FALSE, None, << "run" >>, None, << >>, None),
      SendError(1, PeerQ, "Offline", None) }

InitBoot == InitWith("PreBoot", OnExitNone, {})

NextBoot ==
    \/ ndelivered < MaxDeliver + 1 /\ \E e \in BootInbound : Deliver(e)
    \/ PreBootRecv
    \/ ReplayOne
    \/ StartComponent
    \/ GetNextMessageForProcess

SpecBoot == InitBoot /\ [][NextBoot]_vars

(***************************************************************************)
(* The capability specification: envelopes that carry capabilities in and  *)
(* out of a process that holds some, and its exit with OnExit::Requests.   *)
(***************************************************************************)
CapLocal == Cap(PeerQ, "local")
CapFar == Cap(PeerZ, "far")
CapOther == Cap(PeerR, "other")

CapLists ==
    { << Signed(CapLocal), Forged(CapLocal) >>,
      << Forged(CapLocal), Forged(CapFar) >>,
      << Signed(CapFar) >> }

CapInbound ==
    {Request(1, source, None, FALSE, None, << "x" >>, caps, None) :
        source \in {PeerQ, PeerZ}, caps \in CapLists}
    \cup
    {Response(1, source, FALSE, << "x" >>, caps, None) :
        source \in {PeerQ, PeerZ}, caps \in CapLists}

CapOutbound ==
    {SendArgs(PeerQ, FALSE, None, caps, None) :
        caps \in { << >>, << CapLocal >>, << CapOther, CapLocal >> }}

OnExitRequestsPolicy ==
    [kind |-> "Requests",
     requests |->
        << [address |-> PeerQ,
            request |-> [inherit |-> FALSE, body |-> << "bye" >>, metadata |-> None,
                         capabilities |-> << Signed(CapOther) >>],
            blob |-> None],
           [address |-> PeerR,
            request |-> [inherit |-> FALSE, body |-> << "bye" >>, metadata |-> None,
                         capabilities |-> << >>],
            blob |-> None] >>]

InitCaps == InitWith("Running", OnExitRequestsPolicy, {Messaging(PeerQ), CapLocal})

NextCaps ==
    \/ ndelivered < MaxDeliver /\ \E e \in CapInbound : Deliver(e)
    \/ GetNextMessageForProcess
    \/ nsent < MaxSends /\ \E a \in CapOutbound : SendRequest(a, None)
    \/ \E a \in CapOutbound : SendResponse(a)
    \/ nsent = 0 /\ \E is_error \in BOOLEAN : ReturnFromInit(is_error)
    \/ GetAllCaps
    \/ EmitKill
    \/ OnExitRequest
    \/ OnExitRequestsDone

SpecCaps == InitCaps /\ [][NextCaps]_vars

(***************************************************************************)
(* The exit specification: a process under each OnExit policy that         *)
(* receives, returns from init cleanly or with an error, and enacts its    *)
(* policy while the kernel handles its KillProcess.                        *)
(***************************************************************************)
ExitPolicies == {OnExitNone, OnExitRestartPolicy, OnExitRequestsPolicy}

ExitCaps ==
    { {}, {Messaging(PeerQ)}, {Messaging(PeerR), CapLocal},
      {Messaging(PeerQ), Messaging(PeerR)} }

InitExit ==
    \E on_exit \in ExitPolicies, caps \in ExitCaps : InitWith("Running", on_exit, caps)

NextExit ==
    \/ ndelivered < MaxDeliver /\ \E e \in Inbound : Deliver(e)
    \/ GetNextMessageForProcess
    \/ \E is_error \in BOOLEAN : ReturnFromInit(is_error)
    \/ GetAllCaps
    \/ EmitKill
    \/ OnExitNothing
    \/ OnExitRestart
    \/ OnExitRequest
    \/ OnExitRequestsDone
    \/ KernelKill

SpecExit == InitExit /\ [][NextExit]_vars

(***************************************************************************)
(* The state service specification: requests of local processes on the     *)
(* state of two processes and Backup requests, handled by the tasks the     *)
(* service spawns.                                                          *)
(***************************************************************************)
MaxRequests == 3    \* requests a service receives in one run

StateKeys == {Our.process, PeerQ.process}

StateInbound ==
    {StateRequest(1, PeerQ, Timeout, "SetState", p, b) :
        p \in StateKeys, b \in {None, Some("b1"), Some("b2")}}
    \cup
    {StateRequest(1, PeerQ, Timeout, action, p, None) :
        action \in {"GetState", "DeleteState"}, p \in StateKeys}
    \cup
    {StateRequest(1, source, expects, "Backup", Our.process, None) :
        source \in {PeerQ, PeerZ}, expects \in {None, Timeout}}

NextState ==
    \/ Len(state_tasks) < MaxRequests /\ \E km \in StateInbound : StateRecv(km)
    \/ \E t \in DOMAIN state_tasks : HandleRequest(t)
    \/ \E t \in DOMAIN state_tasks : BackupRemove(t)
    \/ \E t \in DOMAIN state_tasks : BackupCreate(t)

SpecState == Init /\ [][NextState]_vars

(***************************************************************************)
(* The boot specification of the state service: the node is booted several *)
(* times on one store, with a distribution that changes between the boots, *)
(* and between two boots the service handles requests on the state of      *)
(* processes.                                                              *)
(***************************************************************************)
MaxLoads == 2       \* boots of the node on one store

ManifestEntry(process_name, request_messaging, request_networking) ==
    [process_name |-> process_name, process_wasm_path |-> process_name \o ".wasm",
     on_panic |-> "None", request_messaging |-> request_messaging,
     request_networking |-> request_networking, public |-> FALSE]

Package(name, has_metadata, manifest) ==
    [name |-> name, publisher |-> "uqbar", metadata |-> has_metadata,
     manifest |-> manifest]

Manifests ==
    {None} \cup
    {Some(<< ManifestEntry("a", m, n) >>) :
        m \in {None, Some(<< "b:app:uqbar" >>), Some(<< "a:app:uqbar" >>)},
        n \in BOOLEAN}
    \cup
    {Some(<< ManifestEntry("a", Some(<< "vfs:sys:uqbar" >>), TRUE),
             ManifestEntry("b", None, FALSE) >>)}

Distributions ==
    {<< Package("app", has_metadata, manifest) >> :
        has_metadata \in BOOLEAN, manifest \in Manifests}
    \cup
    {<< Package("app", TRUE, manifest), Package("chess", TRUE, manifest) >> :
        manifest \in Manifests}

RuntimeExtensions == << [id |-> VFS_PROCESS_ID, public |-> FALSE] >>

LoadInbound ==
    {km \in StateInbound : km.action # "Backup" /\ km.process_id = Our.process}

NextLoad ==
    \/ process_map.loads < MaxLoads
          /\ \E packages \in Distributions : LoadState(RuntimeExtensions, packages)
    \/ Len(state_tasks) < MaxRequests - 1 /\ \E km \in LoadInbound : StateRecv(km)
    \/ \E t \in DOMAIN state_tasks : HandleRequest(t)

SpecLoad == Init /\ [][NextLoad]_vars

(***************************************************************************)
(* The vfs specification: requests of two local processes and of a process *)
(* of another node, handled by the tasks the vfs loop spawns.              *)
(***************************************************************************)
VfsInbound ==
    {VfsRequest(1, source, None, expects, action, << >>, << >>) :
        source \in {PeerQ, PeerR, PeerZ}, expects \in {None, Timeout},
        action \in {"Read"}}

\* The requests the vfs loop has taken from its channel.
Taken == Len(vfs_tasks) + Len(vfs_loop)

NextVfs ==
    \/ Taken < MaxRequests /\ \E km \in VfsInbound : VfsRecv(km)
    \/ VfsPush
    \/ \E t \in DOMAIN vfs_tasks : VfsPop(t)
    \/ \E t \in DOMAIN vfs_tasks, ok \in BOOLEAN : VfsHandled(t, ok)

SpecVfs == Init /\ [][NextVfs]_vars

(***************************************************************************)
(* The replay specification: the boot gate of SpecBoot with one more       *)
(* delivery, so that the buffered entries and the entries waiting in the   *)
(* inbox can together exceed the inbox, and with the loop of               *)
(* make_process_loop always taking its next step when it can.              *)
(***************************************************************************)
NextReplay ==
    \/ ndelivered < MaxDeliver + 2 /\ \E e \in BootInbound : Deliver(e)
    \/ PreBootRecv
    \/ ReplayOne
    \/ StartComponent
    \/ GetNextMessageForProcess

BootFairness ==
    /\ WF_vars(PreBootRecv)
    /\ WF_vars(ReplayOne)
    /\ WF_vars(StartComponent)

SpecReplay == InitBoot /\ [][NextReplay]_vars /\ BootFairness

(***************************************************************************)
(* The vfs answer specification: requests with and without rsvp (under an  *)
(* id of their own) and an expected response, of a local process and of a  *)
(* process of another node.                                                *)
(***************************************************************************)
VfsReplyInbound ==
    {VfsRequest(IF rsvp = None THEN 1 ELSE MaxId, source, rsvp, expects, "Read",
                << >>, << >>) :
        source \in {PeerQ, PeerZ}, rsvp \in {None, Some(PeerZ)},
        expects \in {None, Timeout}}

NextVfsReply ==
    \/ Taken < MaxRequests /\ \E km \in VfsReplyInbound : VfsRecv(km)
    \/ VfsPush
    \/ \E t \in DOMAIN vfs_tasks : VfsPop(t)
    \/ \E t \in DOMAIN vfs_tasks, ok \in BOOLEAN : VfsHandled(t, ok)

SpecVfsReply == Init /\ [][NextVfsReply]_vars

(***************************************************************************)
(* The file specification: the vfs some time after its start.  Package     *)
(* q:pub has the drive d with the file f, package r:pub the drive e with   *)
(* the file g, each created by the process of the package; R also holds    *)
(* the capability to write to d, and P the root capability.  Q, R, P and   *)
(* the kernel process send requests on both drives and on a drive n still  *)
(* to be created.                                                          *)
(***************************************************************************)
MaxOps == 2         \* requests the vfs receives in one run of this specification

DriveD == << "q:pub", "d" >>
DriveE == << "r:pub", "e" >>
DriveN == << "q:pub", "n" >>
FileF == DriveD \o << "f" >>
FileG == DriveE \o << "g" >>
Outside == << "tmp", "x" >>

InitDisk ==
    /\ InitInstance("Running", OnExitNone, {})
    /\ InitServices
    /\ disk = [dirs |-> {VfsPath, << "tmp" >>, VfsPath \o DriveD, VfsPath \o DriveE},
               files |-> {VfsPath \o FileF, VfsPath \o FileG}]
    /\ open_files = {}
    /\ caps_oracle =
          AddCapabilities(PeerQ.process, "/q:pub/d")
              \cup AddCapabilities(PeerR.process, "/r:pub/e")
              \cup {[on |-> PeerR.process, cap |-> DriveCap("write", "/q:pub/d")],
                    [on |-> Our.process, cap |-> RootCap]}
    /\ file_handles = << >>

DiskRequest(source, action, path, new_path) ==
    VfsRequest(1, source, None, Timeout, action, path, new_path)

DiskInbound ==
    {DiskRequest(source, action, FileF, << >>) :
        source \in {PeerQ, PeerR}, action \in {"Write", "Read"}}
    \cup {DiskRequest(PeerQ, "CloseFile", FileF, << >>),
          DiskRequest(PeerQ, "Read", FileG, << >>),
          DiskRequest(PeerQ, "Rename", FileF, VfsPath \o FileG),
          DiskRequest(PeerQ, "Rename", FileF, Outside)}
    \cup {DiskRequest(source, "CreateDrive", DriveN, << >>) :
              source \in {PeerQ, PeerR, Our, OurKernel}}

NextDisk ==
    \/ Taken < MaxOps /\ \E km \in DiskInbound : VfsRecv(km)
    \/ VfsPush
    \/ \E t \in DOMAIN vfs_tasks : VfsPop(t)
    \/ \E t \in DOMAIN vfs_tasks : CheckCaps(t)
    \/ \E t \in DOMAIN vfs_tasks : OpenFileGet(t)
    \/ \E t \in DOMAIN vfs_tasks : OpenFileInsert(t)
    \/ \E t \in DOMAIN vfs_tasks : LockFile(t)
    \/ \E t \in DOMAIN vfs_tasks : Complete(t)

SpecDisk == InitDisk /\ [][NextDisk]_vars

(***************************************************************************)
(* The terminal specification: the terminal receives one line and runs it. *)
(* The lines name the script m with and without a pipe, with blanks around *)
(* the pipe and with a bar in the arguments, and an unknown script.  The   *)
(* vfs, the kernel and the script answer or stay silent until the timeout  *)
(* fires; the script answers with text or with bytes that are not UTF-8.   *)
(***************************************************************************)
\* The line <script> <args>|<t> <pipe-target> for the script m.
PipedLine(args, digits, target) ==
    << "m", " " >> \o args \o << "|" >> \o digits \o << " " >> \o target

PipedArgs == { << "h", "i" >>, << "a", "|", "b" >> }
PipedTimes == { << "5" >>, << "1", "0" >> }
PipedTargets == { << "m" >> }

Lines ==
    {PipedLine(args, digits, target) :
         args \in PipedArgs, digits \in PipedTimes, target \in PipedTargets}
    \cup { << "m", " ", "h", "i" >>,
           << "m", " ", "h", "i", " ", "|", "5", " ", " ", "m" >>,
           << "x", " ", "h", "i" >> }

TerminalInbound == {Request(1, Our, None, FALSE, None, body, << >>, None) : body \in Lines}

Bodies == { << "o", "k" >>, << NotUtf8 >> }

TerminalStep ==
    \/ TerminalReceive
    \/ GetEntry
    \/ ReadWasm
    \/ TerminalInitialize
    \/ TerminalGrant
    \/ TerminalRun
    \/ RunScript
    \/ PipeResponse
    \/ AwaitRecv

NextTerminal ==
    \/ (ndelivered = 0 /\ nsent = 0) /\ \E e \in TerminalInbound : Deliver(e)
    \/ \E u \in unanswered, body \in Bodies, blob \in {None, Some("b")} :
           Replies(u, body, blob)
    \/ \E r \in DOMAIN timers : TimerFire(r)
    \/ TerminalStep

SpecTerminal == Init /\ [][NextTerminal]_vars

(***************************************************************************)
(* The liveness specification: timed requests of a process that keeps      *)
(* receiving, whose timeout tasks run and whose awaits are resumed.  The   *)
(* request the process handles, if any, arrives before it sends its own.   *)
(***************************************************************************)
NextLive ==
    \/ (ndelivered = 0 /\ nsent = 0) /\ \E e \in Inbound : Deliver(e)
    \/ ndelivered < MaxDeliver /\ \E u \in unanswered : Respond(u)
    \/ \E r \in DOMAIN timers : TimerFire(r)
    \/ GetNextMessageForProcess
    \/ nsent < MaxSends /\ \E a \in TimedOutbound : SendRequest(a, None)
    \/ nsent < MaxSends /\ \E a \in TimedOutbound : SendAndAwaitResponse(a)
    \/ AwaitRecv

\* The sleep of a timeout task ends; the component keeps calling receive; a
\* suspended await is resumed when the inbox has an entry.
Fairness ==
    /\ \A r \in 1 .. MaxSends : WF_vars(TimerFire(r))
    /\ WF_vars(GetNextMessageForProcess)
    /\ WF_vars(AwaitRecv)

SpecLive == Init /\ [][NextLive]_vars /\ Fairness

(***************************************************************************)
(* The envelope specifications: what send_request (SpecWire) and           *)
(* send_response (SpecReply) emit, over incoming envelopes with and        *)
(* without rsvp and blob and sends with and without inherit, timeout, blob *)
(* and an injected source; and send_and_await_response over requests with  *)
(* and without a timeout (SpecAwait).                                      *)
(***************************************************************************)
WireInbound ==
    {Request(1, PeerQ, rsvp, FALSE, None, << "x" >>, << >>, blob) :
        rsvp \in {None, Some(PeerR)}, blob \in {None, Some("b")}}
    \cup
    {Envelope("Response", 1, PeerZ, Our, rsvp, FALSE, None, << "re" >>, None, << >>, blob) :
        rsvp \in {None, Some(PeerR)}, blob \in {Some("r")}}

WithFakeSource(a, fake_source) == [fake_source |-> fake_source] @@ a

WireOutbound ==
    {WithFakeSource(SendArgs(PeerQ, inherit, expects, << >>, blob), fake_source) :
        inherit \in BOOLEAN, expects \in {None, Timeout}, blob \in {None, Some("e")},
        fake_source \in {None, Some(OurKernel)}}

WireReplies ==
    {SendArgs(PeerQ, inherit, None, << >>, blob) :
        inherit \in BOOLEAN, blob \in {None, Some("e")}}

NextWire ==
    \/ ndelivered < MaxDeliver /\ \E e \in WireInbound : Deliver(e)
    \/ GetNextMessageForProcess
    \/ nsent < MaxSends /\ \E a \in WireOutbound : SendRequest(a, None)

SpecWire == Init /\ [][NextWire]_vars

NextReply ==
    \/ ndelivered < MaxDeliver /\ \E e \in WireInbound : Deliver(e)
    \/ GetNextMessageForProcess
    \/ nsent < MaxSends /\ \E a \in TimedOutbound : SendRequest(a, None)
    \/ \E a \in WireReplies : SendResponse(a)

SpecReply == Init /\ [][NextReply]_vars

NextAwait ==
    \/ ndelivered < MaxDeliver /\ \E e \in Inbound : Deliver(e)
    \/ ndelivered < MaxDeliver /\ \E u \in unanswered : Respond(u)
    \/ \E r \in DOMAIN timers : TimerFire(r)
    \/ GetNextMessageForProcess
    \/ nsent < MaxSends /\ \E a \in Outbound : SendAndAwaitResponse(a)
    \/ AwaitRecv

SpecAwait == Init /\ [][NextAwait]_vars

(***************************************************************************)
(* The user context specification: requests sent with and without a user   *)
(* context, answered by their target or by their timeout task.             *)
(***************************************************************************)
UserContexts == {None, Some("c1"), Some("c2")}

NextContext ==
    \/ ndelivered = 0 /\ nsent = 0 /\ \E e \in Inbound : Deliver(e)
    \/ ndelivered < MaxDeliver /\ \E u \in unanswered : Respond(u)
    \/ \E r \in DOMAIN timers : TimerFire(r)
    \/ GetNextMessageForProcess
    \/ nsent < MaxSends /\ \E a \in TimedOutbound, c \in UserContexts : SendRequest(a, c)

SpecContext == Init /\ [][NextContext]_vars

(***************************************************************************)
(* Properties of request/response correlation.                             *)
(***************************************************************************)
\* The request the last operation sent is a timed request with id `id`.
JustSentTimed(id) ==
    /\ last.op \in {"send_request", "send_and_await_response"}
    /\ last.ret = Some(id)
    /\ IsSome(send_to_loop[1].expects_response)

\* The last operation handed the component a Response or a send error with
\* id `id`.
Answered(id) ==
    /\ last.op \in {"receive", "await"}
    /\ Unwrap(last.res).kind \in {"Response", "SendError"}
    /\ Unwrap(last.res).id = id

\* C2: every timed request is eventually answered at a sender that keeps
\* receiving: a Response or a send error with its id is handed over.
C2_EventuallyAnswered ==
    \A id \in Ids : JustSentTimed(id) ~> (Answered(id) \/ phase # "Running")

\* The timeout error of a request whose target never answered was handed over.
C2_Witness ==
    /\ Answered(Unwrap(last.res).id)
    /\ Unwrap(last.res).error = "Timeout"
    /\ \E u \in unanswered : u.re = Unwrap(last.res).re

\* C1: for a request sent with a timeout the component is handed at most one
\* of its Response and its Timeout send error, never both.
C1_AtMostOneAnswer ==
    \A r \in DOMAIN handed : ~ ({"Response", "Timeout"} \subseteq handed[r])

\* The entries that await a receive, in the order a receive would take them.
PendingSeq == message_queue \o recv_in_process

\* C5: a receive hands over the entry that was enqueued first among those
\* not yet handed over, entries stashed by an earlier await included.
C5_ReceiveInArrivalOrder ==
    [][(last'.op = "receive" /\ Len(arrived') < Len(arrived)) =>
          /\ arrived # << >>
          /\ last'.res = Some(Head(arrived))
          /\ arrived' = Tail(arrived)
          /\ PendingSeq' = Tail(PendingSeq)]_vars

\* A receive took a stashed entry and left another stashed entry behind.
C5_Witness ==
    /\ last.op = "receive"
    /\ message_queue # << >>
    /\ Unwrap(last.res).kind = "Request"

\* The id an await step waits for: the suspended await's, or that of the
\* request the step itself sends.
AwaitedId == IF IsSome(awaiting) THEN Unwrap(awaiting) ELSE send_to_loop'[1].id

\* C6: an await hands over only an entry with the awaited id; every other
\* entry it meets stays pending, in arrival order, for later receives.
C6_AwaitReturnsOnlyAwaited ==
    [][/\ (last'.op = "await" /\ Len(arrived') < Len(arrived)) =>
             /\ Unwrap(last'.res).id = AwaitedId
             /\ PendingSeq' = Without(PendingSeq, Unwrap(last'.res))
             /\ PendingSeq' = arrived'
       /\ (IsSome(awaiting) /\ IsSome(awaiting')) =>
             /\ Len(PendingSeq') >= Len(PendingSeq)
             /\ SubSeq(PendingSeq', 1, Len(PendingSeq)) = PendingSeq
             /\ PendingSeq' = arrived'
             /\ handed' = handed]_vars

\* An await passed over two entries and then returned the awaited one.
C6_Witness ==
    /\ last.op = "await"
    /\ Len(message_queue) >= 2
    /\ \A i \in DOMAIN message_queue : message_queue[i].id # Unwrap(last.res).id

\* C7: an await whose id is carried by an entry of the queue, envelope or
\* send error, returns that entry without suspending.
C7_QueuedEntryReturned ==
    IsSome(awaiting) =>
        \A i \in DOMAIN message_queue : message_queue[i].id # Unwrap(awaiting)

\* C10: with inherit and a predecessor request the new request has the
\* predecessor's id; otherwise its id is no key of contexts at the draw; the
\* id returned is the id of the emitted envelope.
C10_RequestId ==
    [][(nsent' = nsent + 1) =>
          LET km == send_to_loop'[1]
              predecessor ==
                  IF IsRequest(current_incoming_message) THEN current_incoming_message
                  ELSE nested_request
          IN  /\ Len(send_to_loop') = 1
              /\ (km.inherit /\ predecessor # None) =>
                     km.id = Unwrap(predecessor).id
              /\ ~ (km.inherit /\ predecessor # None) =>
                     km.id \notin DOMAIN contexts
              /\ (last'.op \in {"send_request", "send_and_await_response"}) =>
                     last'.ret = Some(km.id)]_vars

\* An inheriting request went out under the id of the incoming request while
\* another id was free.
C10_Witness ==
    /\ last.op = "send_request"
    /\ IsRequest(current_incoming_message)
    /\ send_to_loop # << >>
    /\ send_to_loop[1].inherit
    /\ send_to_loop[1].id = Unwrap(current_incoming_message).id
    /\ last.ret = Some(send_to_loop[1].id)
    /\ nsent = 2
    /\ DOMAIN contexts = {send_to_loop[1].id}

\* C11: send_request never registers a context under an id that is already
\* a key of contexts, so the timeout task of every in-flight request is the
\* one its own context holds and in-flight ids are unique.
C11_InFlightIdsUnique ==
    \A r \in DOMAIN timers :
        /\ timers[r].id \in DOMAIN contexts
        /\ contexts[timers[r].id].timer = r

\* A step that sends a request, and a step that hands a Response or a send
\* error to the component.
SendStep == nsent' = nsent + 1
TimedSendStep == SendStep /\ IsSome(send_to_loop'[1].expects_response)
AnswerStep ==
    /\ Len(arrived') < Len(arrived)
    /\ last'.op \in {"receive", "await"}
    /\ Unwrap(last'.res).kind # "Request"

\* C13: contexts has an entry for an id exactly from a send that expects a
\* response under that id until a Response or send error with that id is
\* handed over; the hand-over also cancels the entry's timeout task.
C13_ContextsAreOutstanding ==
    [][LET sent == IF TimedSendStep THEN {send_to_loop'[1].id} ELSE {}
           answered == IF AnswerStep THEN {Unwrap(last'.res).id} ELSE {}
           registered == DOMAIN contexts \cup sent
       IN  /\ nsent = 0 => DOMAIN contexts = {}
           /\ DOMAIN contexts' = registered \ answered
           /\ \A id \in answered \cap registered :
                  LET timer == IF id \in sent THEN nsent + 1
                               ELSE contexts[id].timer
                  IN  timer \notin DOMAIN timers']_vars

\* A send error was handed over and its entry removed while the entry of
\* another request stays.
C13_Witness ==
    /\ last.op = "receive"
    /\ Unwrap(last.res).kind = "SendError"
    /\ Unwrap(last.res).id \notin DOMAIN contexts
    /\ DOMAIN contexts # {}
    /\ nsent = 2

\* C14: once the Timeout send error of a request has been handed over, a
\* Response to that request that arrives later is never handed over.
C14_LateResponseDropped ==
    (/\ last.op \in {"receive", "await"}
     /\ Unwrap(last.res).kind = "Response"
     /\ Unwrap(last.res).re # 0) =>
        "Timeout" \notin handed[Unwrap(last.res).re]

\* C18: send_and_await_response ends with the Response or the send error of
\* the id it sent, never with a Request and never in the fatal error.
C18_AwaitEndsWithAnswer ==
    last.op = "await" =>
        /\ Unwrap(last.res).kind \in {"Response", "SendError"}
        /\ phase = "Running"

(***************************************************************************)
(* Properties of the exit path.                                            *)
(***************************************************************************)
\* What the exit path sent: the kernel command of each envelope, in order.
EmittedCommands == [k \in DOMAIN exit.emitted |-> exit.emitted[k].body[1]]

\* An envelope from the local kernel process to itself, with no rsvp, that
\* inherits nothing and expects no response.
IsKernelCommand(e) ==
    /\ e.kind = "Request"
    /\ e.source = OurKernel /\ e.target = OurKernel
    /\ e.rsvp = None /\ ~ e.inherit /\ e.expects_response = None
    /\ e.capabilities = << >>

\* C21: a process with OnExit = Restart that returned without error has sent
\* KillProcess(self), then InitializeProcess with its process id, wasm handle,
\* OnExit policy, public flag and the capabilities read from the oracle before
\* the kill was sent, then RunProcess(self).
C21_RestartSequence ==
    (phase = "Done" /\ metadata.on_exit.kind = "Restart" /\ ~ exit.is_error) =>
        /\ EmittedCommands = << "KillProcess", "InitializeProcess", "RunProcess" >>
        /\ \A k \in 1 .. 3 : IsKernelCommand(exit.emitted[k])
        /\ exit.emitted[1].body = << "KillProcess", Our.process >>
        /\ exit.emitted[2].body =
              << "InitializeProcess", Our.process, metadata.wasm_bytes_handle,
                 metadata.on_exit, exit.initial_capabilities, metadata.public >>
        /\ exit.emitted[3].body = << "RunProcess", Our.process >>

\* The restart was requested after the kernel dropped the capabilities of the
\* killed process, and carries the capabilities it held at exit.
C21_Witness ==
    /\ phase = "Done" /\ metadata.on_exit.kind = "Restart" /\ ~ exit.is_error
    /\ Len(exit.emitted) = 3
    /\ exit.emitted[2].body[5] # {}
    /\ held = {}

Permitted ==
    {i \in DOMAIN metadata.on_exit.requests :
        Messaging(metadata.on_exit.requests[i].address) \in exit.initial_capabilities}

\* C23: on exit with OnExit = Requests, a request is emitted (expecting no
\* response, without rsvp) exactly when the process held, at exit, the
\* messaging capability issued by the request's target.
C23_ExitRequestsFollowCaps ==
    (phase = "Done" /\ metadata.on_exit.kind = "Requests") =>
        \A i \in DOMAIN metadata.on_exit.requests :
            (i \in Permitted) <=>
                \E k \in 2 .. Len(exit.emitted) :
                    /\ exit.emitted[k].target = metadata.on_exit.requests[i].address
                    /\ exit.emitted[k].source = Our
                    /\ exit.emitted[k].expects_response = None
                    /\ exit.emitted[k].rsvp = None

Writers(p) ==
    {t \in DOMAIN state_tasks :
        /\ state_tasks[t].km.process_id = p
        /\ state_tasks[t].km.action \in {"SetState", "DeleteState"}}

IsSet(t, p) ==
    /\ state_tasks[t].km.action = "SetState"
    /\ state_tasks[t].km.process_id = p
    /\ IsSome(state_tasks[t].km.payload)

IsGet(t, p) ==
    /\ state_tasks[t].km.action = "GetState"
    /\ state_tasks[t].km.process_id = p

\* C25: the state service applies the requests in the order it received
\* them: a GetState(p) received after SetState(p, b) returns b, and of
\* SetState(p, b1) received before SetState(p, b2) it is b2 that stays stored.
C25_AppliedInOrder ==
    \A p \in StateKeys : \A t, u \in DOMAIN state_tasks :
        /\ (t < u /\ IsSet(t, p) /\ IsGet(u, p) /\ Writers(p) = {t}
               /\ state_tasks[u].pc = "done") =>
              /\ state_tasks[u].result # << >>
              /\ state_tasks[u].result[1].ipc = << "GetState" >>
              /\ state_tasks[u].result[1].payload = state_tasks[t].km.payload
        /\ (t < u /\ IsSet(t, p) /\ IsSet(u, p) /\ Writers(p) = {t, u}
               /\ state_tasks[t].pc = "done" /\ state_tasks[u].pc = "done") =>
              db[ToHash(p)] = Unwrap(state_tasks[u].km.payload)

\* Task t runs handle_request to its end in this step.
Handled(t) == state_tasks[t].pc = "spawned" /\ state_tasks'[t].pc = "done"

\* C26: DeleteState(p) answers DeleteState and leaves nothing stored under
\* p's key, whether or not something was stored (a second one changes
\* nothing); GetState(p) then fails with NotFound, and only a SetState(p)
\* stores a value under the key again.
C26_DeleteIdempotent ==
    [][\A p \in StateKeys :
          /\ \A t \in DOMAIN state_tasks :
                /\ (Handled(t) /\ state_tasks[t].km.process_id = p
                       /\ state_tasks[t].km.action = "DeleteState") =>
                      /\ db' = RemoveKey(db, ToHash(p))
                      /\ state_tasks'[t].result # << >>
                      /\ state_tasks'[t].result[1].ipc = << "DeleteState" >>
                /\ (Handled(t) /\ state_tasks[t].km.process_id = p
                       /\ state_tasks[t].km.action = "GetState"
                       /\ ToHash(p) \notin DOMAIN db) =>
                      /\ state_tasks'[t].result # << >>
                      /\ state_tasks'[t].result[1].ipc = << "Err", "NotFound" >>
          /\ (ToHash(p) \notin DOMAIN db /\ ToHash(p) \in DOMAIN db') =>
                \E t \in DOMAIN state_tasks : Handled(t) /\ IsSet(t, p)]_vars

\* The state of a process was deleted twice, the second time with nothing
\* stored, and a GetState that followed failed with NotFound.
C26_Witness ==
    /\ Len(state_tasks) = 3
    /\ \A t \in 1 .. 3 : state_tasks[t].pc = "done"
                          /\ state_tasks[t].km.process_id = Our.process
    /\ state_tasks[1].km.action = "DeleteState"
    /\ state_tasks[2].km.action = "DeleteState"
    /\ state_tasks[3].km.action = "GetState"
    /\ state_tasks[2].result[1].ipc = << "DeleteState" >>
    /\ state_tasks[3].result[1].ipc = << "Err", "NotFound" >>
    /\ Len(state_out) = 3

\* C29: once a Backup has completed, the checkpoint directory holds a
\* snapshot at every later point, and no Backup is aborted.
C29_BackupAtomic ==
    /\ (\E t \in DOMAIN state_tasks :
            state_tasks[t].km.action = "Backup" /\ state_tasks[t].pc = "done") =>
          checkpoint # None
    /\ \A t \in DOMAIN state_tasks : state_tasks[t].pc # "panicked"

\* The key of the kernel's record.
KernelKey == << "hash", "kernel" >>

\* load_state runs in this step.
LoadStep == process_map'.loads = process_map.loads + 1

\* C27: load_state bootstraps exactly when the store holds no record under
\* the kernel key and then stores the process map it built under that key;
\* a load_state that finds the record returns the stored process map and
\* leaves the store as it is; so one store is bootstrapped at most once, and
\* no load_state touches the state of a process.
C27_BootstrapOnce ==
    [][/\ LoadStep =>
             /\ (process_map'.bootstraps = process_map.bootstraps + 1)
                    <=> (KernelKey \notin DOMAIN db)
             /\ process_map'.bootstraps \in {process_map.bootstraps,
                                             process_map.bootstraps + 1}
             /\ KernelKey \in DOMAIN db'
             /\ process_map'.returned = db'[KernelKey][2]
             /\ \A k \in (DOMAIN db \cup DOMAIN db') \ {KernelKey} :
                    k \in DOMAIN db /\ k \in DOMAIN db' /\ db'[k] = db[k]
       /\ KernelKey \in DOMAIN db =>
             KernelKey \in DOMAIN db' /\ db'[KernelKey] = db[KernelKey]
       /\ process_map'.bootstraps <= 1]_vars

\* The node was booted a second time, on a store that holds the state of a
\* process, with another distribution on disk than at the bootstrap, and
\* load_state returned the process map of the bootstrap.
C27_Witness ==
    /\ process_map.loads = 2
    /\ process_map.bootstraps = 1
    /\ ToHash(Our.process) \in DOMAIN db
    /\ "a:app:uqbar" \in DOMAIN process_map.returned
    /\ "a:chess:uqbar" \in DOMAIN process_map.returned

\* The capabilities a manifest entry declares: messaging to each process it
\* names, and the network capability if it asks for it.
Declared(entry) ==
    {Cap(Addr(OurNode, Unwrap(entry.request_messaging)[i]), "\"messaging\"") :
        i \in DOMAIN (IF IsSome(entry.request_messaging)
                      THEN Unwrap(entry.request_messaging) ELSE << >>)}
    \cup (IF entry.request_networking
          THEN {Cap(Addr(OurNode, KERNEL_PROCESS_ID), "\"network\"")}
          ELSE {})

\* The read and write capabilities for the drive of package `name`.
OwnDrive(name) ==
    {Cap(Addr(OurNode, "vfs:sys:uqbar"),
         "{\"kind\":\"" \o kind \o "\",\"drive\":\"/kernel:sys:uqbar/" \o name
            \o ":uqbar\"}") : kind \in {"read", "write"}}

\* C28: after bootstrap every process declared in a package manifest has a
\* record whose capabilities are the ones its manifest entry declares and the
\* read and write capabilities for the drive of its package, and no other.
C28_ManifestCapsExactly ==
    process_map.bootstraps > 0 =>
        \A i \in DOMAIN process_map.packages :
            LET package == process_map.packages[i]
            IN  (package.metadata /\ IsSome(package.manifest)) =>
                  \A j \in DOMAIN Unwrap(package.manifest) :
                      LET entry == Unwrap(package.manifest)[j]
                          pid == entry.process_name \o ":" \o package.name \o ":uqbar"
                      IN  /\ pid \in DOMAIN process_map.returned
                          /\ process_map.returned[pid].capabilities =
                                Declared(entry) \cup OwnDrive(package.name)

(***************************************************************************)
(* Properties of the vfs.                                                  *)
(***************************************************************************)
\* C30: the requests of one source are handled one after the other in the
\* order issued: while a request is handled, every earlier request of its
\* source that is to be answered has been answered, no other request of the
\* source is being handled, and the answers to a source leave in the order
\* of its requests.
C30_PerSourceOrder ==
    /\ \A t \in DOMAIN vfs_tasks :
          vfs_tasks[t].pc = "handling" =>
              /\ \A u \in DOMAIN vfs_tasks :
                    (u # t /\ vfs_tasks[u].source = vfs_tasks[t].source) =>
                        /\ vfs_tasks[u].pc # "handling"
                        /\ (vfs_tasks[u].pc = "done" /\ IsSome(vfs_tasks[u].km)) =>
                              Unwrap(vfs_tasks[u].km).op < Unwrap(vfs_tasks[t].km).op
              /\ \A op \in 1 .. Unwrap(vfs_tasks[t].km).op - 1 :
                    \E u \in DOMAIN vfs_tasks :
                        /\ vfs_tasks[u].source = vfs_tasks[t].source
                        /\ vfs_tasks[u].pc = "done"
                        /\ vfs_tasks[u].km # None
                        /\ Unwrap(vfs_tasks[u].km).op = op
    /\ \A j, k \in DOMAIN vfs_out :
          (j < k /\ vfs_out[j].source = vfs_out[k].source) =>
              vfs_out[j].op < vfs_out[k].op

\* Three requests of one source have been answered, the second one by a
\* task spawned for another one.
C30_Witness ==
    /\ Len(vfs_out) = 3
    /\ \A k \in 1 .. 3 : vfs_out[k].source = PeerQ.process /\ vfs_out[k].op = k
    /\ Len(vfs_tasks) = 3
    /\ Unwrap(vfs_tasks[3].km).op = 2

\* C35: when the instance is handling a Request R and a receive hands it a
\* Response, R stays the prompting request: either the current message is
\* (again) a Request, or R has been saved as nested_request, so that a later
\* send_response still finds an id and a target.
C35_PromptingRequestRetained ==
    [][(/\ Len(arrived') < Len(arrived)
        /\ last'.op = "receive"
        /\ Unwrap(last'.res).kind = "Response"
        /\ IsRequest(current_incoming_message))
       => (\/ IsRequest(current_incoming_message')
           \/ nested_request' = current_incoming_message)]_vars

\* C36: once Run has been received the instance eventually runs, whatever
\* the number of buffered entries and of entries waiting in its inbox.
C36_ReplayCompletes == (phase = "Replay") ~> (phase = "Running")

\* C38: the intake of the vfs is never held up by an operation in progress:
\* while a task handles a request, the loop either waits at its channel or
\* holds a request whose queue it can take at once, so that requests of
\* every other source are still accepted and started.
C38_IntakeNeverStalls ==
    \A t \in DOMAIN vfs_tasks :
        vfs_tasks[t].pc = "handling" =>
            (vfs_loop = None \/ QueueFree(Unwrap(vfs_loop).source.process))

\* The tasks of a source that have popped a request.
Workers(process) ==
    {t \in DOMAIN vfs_tasks : vfs_tasks[t].source = process /\ vfs_tasks[t].km # None}

\* C39: every request accepted from a local source is handled exactly once:
\* a task that got the mutex has popped a request, the head of the queue;
\* no two tasks hold the same request and none they hold is still queued;
\* the queue of a source is empty once all its tasks are done; and nothing
\* of a source on another node is queued or handled.
C39_HandledExactlyOnce ==
    /\ \A t \in DOMAIN vfs_tasks :
          /\ vfs_tasks[t].pc # "spawned" => vfs_tasks[t].km # None
          /\ vfs_tasks[t].km # None =>
                /\ Unwrap(vfs_tasks[t].km).source.node = OurNode
                /\ Unwrap(vfs_tasks[t].km).source.process = vfs_tasks[t].source
                /\ \A u \in DOMAIN vfs_tasks :
                      (u # t /\ vfs_tasks[u].source = vfs_tasks[t].source
                             /\ vfs_tasks[u].km # None) =>
                          Unwrap(vfs_tasks[u].km).op # Unwrap(vfs_tasks[t].km).op
    /\ \A p \in DOMAIN process_queues :
          /\ p # PeerZ.process
          /\ \A i \in DOMAIN process_queues[p] :
                /\ process_queues[p][i].source = Addr(OurNode, p)
                /\ process_queues[p][i].op = Cardinality(Workers(p)) + i
          /\ (\A t \in DOMAIN vfs_tasks :
                  vfs_tasks[t].source = p => vfs_tasks[t].pc = "done") =>
                process_queues[p] = << >>

\* Three requests of two sources have been handled and the queues are empty.
C39_Witness ==
    /\ Len(vfs_tasks) = 3
    /\ \A t \in DOMAIN vfs_tasks : vfs_tasks[t].pc = "done"
    /\ \E t, u \in DOMAIN vfs_tasks : vfs_tasks[t].source # vfs_tasks[u].source
    /\ \A p \in DOMAIN process_queues : process_queues[p] = << >>

\* The messages the vfs sent for the request of task t.
AnswersOf(t) ==
    {k \in DOMAIN vfs_out :
        /\ vfs_out[k].source = vfs_tasks[t].source
        /\ vfs_out[k].op = Unwrap(vfs_tasks[t].km).op}

C31_CapabilityGate ==
    [][\A t \in DOMAIN vfs_tasks :
          (vfs_tasks[t].pc = "handling" /\ vfs_tasks'[t].pc # "handling") =>
              LET km == Unwrap(vfs_tasks[t].km)
                  process == km.source.process
                  drive == "/" \o km.path[1] \o "/" \o km.path[2]
                  needed ==
                      CASE km.action = "CreateDrive" -> RootCap
                        [] km.action \in {"Read"} -> DriveCap("read", drive)
                        [] OTHER -> DriveCap("write", drive)
                  refused == vfs_tasks'[t].pc = "done" /\ vfs_tasks'[t].ipc = "NoCap"
              IN  /\ PackageOf(process) = km.path[1] => ~ refused
                  /\ (process # KERNEL_PROCESS_ID /\ PackageOf(process) # km.path[1]) =>
                        (refused <=> [on |-> process, cap |-> needed] \notin caps_oracle)
                  /\ refused =>
                        /\ UNCHANGED << disk, open_files, caps_oracle, file_handles >>
                        /\ vfs_out' = Append(vfs_out, VfsResponse(km, km.source, "NoCap"))]_vars

\* R, which holds the write but not the read capability of the drive d of
\* q:pub, was refused a Read and has then written to the same file.
C31_Witness ==
    \E t, u \in DOMAIN vfs_tasks :
        /\ vfs_tasks[t].source = PeerR.process
        /\ vfs_tasks[t].ipc = "NoCap"
        /\ Unwrap(vfs_tasks[t].km).action = "Read"
        /\ vfs_tasks[u].source = PeerR.process
        /\ vfs_tasks[u].ipc = "Ok"
        /\ Unwrap(vfs_tasks[u].km).action = "Write"

\* C32: after a CreateDrive answered with Ok the directory of the drive
\* exists and the oracle holds the read and the write capability of the
\* drive for the creator, whoever the creator is.
C32_DriveCreated ==
    \A t \in DOMAIN vfs_tasks :
        (vfs_tasks[t].pc = "done" /\ vfs_tasks[t].ipc = "Ok"
             /\ Unwrap(vfs_tasks[t].km).action = "CreateDrive") =>
            LET km == Unwrap(vfs_tasks[t].km)
            IN  /\ VfsPath \o << km.path[1], km.path[2] >> \in disk.dirs
                /\ \A kind \in {"read", "write"} :
                      [on |-> km.source.process,
                       cap |-> DriveCap(kind, "/" \o km.path[1] \o "/" \o km.path[2])]
                          \in caps_oracle

\* C33: at most one task reads or writes a file path at a time, and the
\* tasks that have opened a path, or hold its lock, share one handle.
C33_OneOperationPerPath ==
    \A t, u \in DOMAIN vfs_tasks :
        (/\ t # u
         /\ vfs_tasks[t].pc \in {"opened", "locked"}
         /\ vfs_tasks[u].pc \in {"opened", "locked"}
         /\ PathOf(t) = PathOf(u)) =>
            /\ vfs_tasks[t].file = vfs_tasks[u].file
            /\ ~ (vfs_tasks[t].pc = "locked" /\ vfs_tasks[u].pc = "locked")

\* The drives of the file specification.
Drives == {DriveD, DriveE, DriveN}

Within(dir, path) == Len(path) >= Len(dir) /\ SubSeq(path, 1, Len(dir)) = dir

\* What a step created, replaced or removed.
Touched ==
    ((disk.files \cup disk'.files) \ (disk.files \cap disk'.files))
        \cup ((disk.dirs \cup disk'.dirs) \ (disk.dirs \cap disk'.dirs))
        \cup {p \in disk.files : \E t \in DOMAIN vfs_tasks :
                 /\ vfs_tasks[t].km # None
                 /\ vfs_tasks[t].pc # "done" /\ vfs_tasks'[t].pc = "done"
                 /\ vfs_tasks'[t].ipc = "Ok"
                 /\ Unwrap(vfs_tasks[t].km).action = "Rename"
                 /\ Unwrap(vfs_tasks[t].km).new_path = p}

\* C37: whatever a task creates, replaces or removes lies in a drive its
\* source owns or holds the write capability of; a source with authority
\* over one drive only changes nothing in another drive or outside the vfs
\* directory, the destination of Rename included.
C37_ConfinedToDrive ==
    [][\A t \in DOMAIN vfs_tasks :
          (vfs_tasks'[t] # vfs_tasks[t] /\ vfs_tasks[t].km # None) =>
              \A p \in Touched :
                  \E d \in Drives :
                      /\ Within(VfsPath \o d, p)
                      /\ \/ PackageOf(vfs_tasks[t].source) = d[1]
                         \/ [on |-> vfs_tasks[t].source,
                             cap |-> DriveCap("write", "/" \o d[1] \o "/" \o d[2])]
                                \in caps_oracle']_vars

\* The seconds a run of digits stands for.
Seconds(digits) == IF digits = << "5" >> THEN 5 ELSE 10

\* C34, the requests: the request to the script carries the arguments, is
\* awaited for t seconds and is sent only when the InitializeProcess and the
\* RunProcess request, the third and the fifth of handle_run, have been
\* answered; a request of the terminal to itself is the seventh and last, is
\* sent only after the Response to the script's request was handed over and
\* no error was, and carries the pipe target, a blank and the response body.
PipedStep(args, digits, target) ==
    (IsRequest(current_incoming_message)
        /\ Unwrap(current_incoming_message).body = PipedLine(args, digits, target)
        /\ nsent' = nsent + 1)
    => LET e == send_to_loop'[1]
       IN  /\ e.body[1] = "InitializeProcess" => e.re = 3
           /\ e.body[1] = "RunProcess" => e.re = 5
           /\ e.target = ScriptAddress =>
                 /\ e.re = 6
                 /\ e.body = args
                 /\ e.expects_response = Some(Seconds(digits))
                 /\ "Response" \in handed[3]
                 /\ "Response" \in handed[5]
           /\ e.target = Our =>
                 /\ e.re = 7
                 /\ handed[6] = {"Response"}
                 /\ e.body = target \o << " " >> \o Unwrap(last.out).body
           /\ e.re <= 7

\* C34, the pipe: the script's response has been handed to the terminal in
\* time, and the step the terminal takes next sends the pipe request.
PipedResponse(args, digits, target) ==
    (IsRequest(current_incoming_message)
        /\ Unwrap(current_incoming_message).body = PipedLine(args, digits, target)
        /\ nsent = 6
        /\ handed[6] = {"Response"}
        /\ (last' # last \/ phase' # phase))
    => nsent' = 7

\* C34: for a line <script> <args>|<t> <pipe-target> the terminal sends the
\* arguments to the script only after InitializeProcess and RunProcess were
\* answered, awaits the response for t seconds, sends exactly one request
\* "<pipe-target> <response body>" to itself if the response arrives in time,
\* and none if the await ends in an error.
C34_PipeToSelf ==
    [][\A args \in PipedArgs, digits \in PipedTimes, target \in PipedTargets :
           /\ PipedStep(args, digits, target)
           /\ PipedResponse(args, digits, target)]_vars

\* C19: send_and_await_response with a request that expects no response
\* fails at once and changes nothing: no envelope, no context, no timeout
\* task, the queue and the inbox as they were.
C19_InvalidAwaitHasNoEffect ==
    [][(/\ last' # last
        /\ last'.op = "send_and_await_response"
        /\ Unwrap(last'.args).expects_response = None) =>
          /\ last'.ret = None
          /\ awaiting' = None
          /\ UNCHANGED << send_to_loop, contexts, timers, recv_in_process,
                          message_queue, nsent, phase, current_incoming_message,
                          last_blob >>]_vars

\* The call was refused while an earlier request is in flight and the inbox
\* holds an entry.
C19_Witness ==
    /\ last.op = "send_and_await_response"
    /\ Unwrap(last.args).expects_response = None
    /\ last.ret = None
    /\ send_to_loop # << >>
    /\ recv_in_process # << >>

\* C20: a Response or send error is handed over with the user context given
\* to the send_request that registered its id, and with none when no context
\* is registered for the id.
C20_UserContextRestored ==
    [][/\ AnswerStep =>
             last'.context =
                 IF Unwrap(last'.res).id \in DOMAIN contexts
                 THEN contexts[Unwrap(last'.res).id].context
                 ELSE None
       /\ TimedSendStep =>
             contexts'[send_to_loop'[1].id].context = last'.new_context
       /\ \A id \in DOMAIN contexts \cap DOMAIN contexts' :
             ~ (TimedSendStep /\ id = send_to_loop'[1].id) =>
                 contexts'[id].context = contexts[id].context]_vars

\* A send error was handed over with its own user context while a request
\* with another user context is in flight.
C20_Witness ==
    /\ last.op = "receive"
    /\ Unwrap(last.res).kind = "SendError"
    /\ last.context = Some("c1")
    /\ \E id \in DOMAIN contexts : contexts[id].context = Some("c2")

(***************************************************************************)
(* Properties of the emitted envelopes.                                    *)
(***************************************************************************)
\* C12: the rsvp of a request envelope is this process when a response is
\* expected; else, with inherit and a current incoming Request, that
\* Request's rsvp; else None.
C12_RequestRsvp ==
    last.op = "send_request" =>
        LET km == send_to_loop[1]
            a == Unwrap(last.args)
        IN  km.rsvp =
                IF IsSome(a.expects_response) THEN Some(Our)
                ELSE IF a.inherit /\ IsRequest(current_incoming_message)
                     THEN Unwrap(current_incoming_message).rsvp
                     ELSE None

\* C15: send_response emits a Response with the id of the prompting Request,
\* to its rsvp when set and to its source otherwise, from this process and
\* with no rsvp; with no prompting Request it emits nothing.
C15_ResponseEnvelope ==
    last.op = "send_response" =>
        LET prompting ==
                IF IsRequest(current_incoming_message) THEN current_incoming_message
                ELSE nested_request
            p == Unwrap(prompting)
        IN  IF prompting = None THEN send_to_loop = << >>
            ELSE /\ Len(send_to_loop) = 1
                 /\ send_to_loop[1].kind = "Response"
                 /\ send_to_loop[1].id = p.id
                 /\ send_to_loop[1].target =
                        (IF p.rsvp # None THEN Unwrap(p.rsvp) ELSE p.source)
                 /\ send_to_loop[1].source = Our
                 /\ send_to_loop[1].rsvp = None

\* A response went to the rsvp of the request that prompted it.
C15_Witness ==
    /\ last.op = "send_response"
    /\ IsRequest(current_incoming_message)
    /\ Unwrap(current_incoming_message).rsvp = Some(PeerR)
    /\ send_to_loop # << >>
    /\ send_to_loop[1].target = PeerR
    /\ send_to_loop[1].id = Unwrap(current_incoming_message).id

\* C16: a request envelope carries the explicit blob when one is given; else
\* last_blob when inherit is set; else no blob.
C16_RequestBlob ==
    last.op = "send_request" =>
        LET a == Unwrap(last.args)
        IN  send_to_loop[1].lazy_load_blob =
                IF IsSome(a.blob) THEN a.blob
                ELSE IF a.inherit THEN last_blob ELSE None

\* C17: a response envelope carries the explicit blob when one is given,
\* also with inherit; else last_blob when inherit is set; else no blob.
C17_ResponseBlob ==
    (last.op = "send_response" /\ send_to_loop # << >>) =>
        LET a == Unwrap(last.args)
        IN  send_to_loop[1].lazy_load_blob =
                IF IsSome(a.blob) THEN a.blob
                ELSE IF a.inherit THEN last_blob ELSE None

(***************************************************************************)
(* Properties of the capability handling.                                  *)
(***************************************************************************)
\* C3: every envelope the instance hands to the dispatch loop carries only
\* capabilities the process holds.
C3_OnlyHeldCapsLeave ==
    \A i \in DOMAIN send_to_loop :
        \A j \in DOMAIN send_to_loop[i].capabilities :
            send_to_loop[i].capabilities[j][1] \in held

\* C4: of the capabilities of an envelope from a foreign node, those issued
\* by the local node are handed over only if their signature verifies; the
\* envelope is handed over with the others; from a local source none is pruned.
C4_ForeignLocalCapsVerified ==
    (last.op \in {"receive", "await"} /\ Unwrap(last.res).kind # "SendError") =>
        LET km == Unwrap(last.res)
            out == Unwrap(last.out)
            HandedOver(pair) ==
                (km.source.node # OurNode /\ pair[1].issuer.node = OurNode)
                    => Verify(pair[1], pair[2])
        IN  /\ out = [km EXCEPT !.capabilities = SelectSeq(km.capabilities, HandedOver)]
            /\ km.source.node = OurNode => out.capabilities = km.capabilities

\* An envelope from a foreign node was handed over without its forged
\* capability and with its verified one.
C4_Witness ==
    /\ last.op = "receive"
    /\ Unwrap(last.res).source.node = FarNode
    /\ Unwrap(last.res).capabilities = << Signed(CapLocal), Forged(CapLocal) >>
    /\ Unwrap(last.out).capabilities = << Signed(CapLocal) >>

(***************************************************************************)
(* Properties of the boot gate.                                            *)
(***************************************************************************)
\* The Run envelope in the words of the contract.
ExactRun(e) ==
    /\ e.kind = "Request"
    /\ e.source.node = OurNode
    /\ e.source.process = KERNEL_PROCESS_ID
    /\ e.body = << "run" >>
    /\ ~ e.inherit
    /\ e.expects_response = None
    /\ e.metadata = None
    /\ e.capabilities = << >>

\* C8: the instance leaves PreBoot only on the exact Run envelope from the
\* local kernel; until then nothing is handed to the component and every
\* other entry is buffered.
C8_PreBootUntilRun ==
    [][phase = "PreBoot" =>
          /\ last' = NoOp
          /\ current_incoming_message' = None
          /\ phase' # "PreBoot" =>
                 (recv_in_process # << >> /\ ExactRun(Head(recv_in_process)))
          /\ (Len(recv_in_process') < Len(recv_in_process)
                 /\ ~ ExactRun(Head(recv_in_process))) =>
                 /\ phase' = "PreBoot"
                 /\ pre_boot_queue' = Append(pre_boot_queue, Head(recv_in_process))]_vars

\* A "run" request from another source and a send error are buffered and the
\* instance is still in PreBoot.
C8_Witness ==
    /\ phase = "PreBoot"
    /\ \E i \in DOMAIN pre_boot_queue :
          /\ pre_boot_queue[i].body = << "run" >>
          /\ pre_boot_queue[i].kind = "Request"
          /\ pre_boot_queue[i].source # OurKernel
    /\ \E i \in DOMAIN pre_boot_queue : pre_boot_queue[i].kind = "SendError"

\* C9: after the replay the entries that await a receive are in the order
\* in which they arrived, those from before Run ahead of those after it.
C9_ReplayKeepsArrivalOrder ==
    phase = "Running" => PendingSeq = arrived

====
